---------------------------- MODULE Spec2Model ----------------------------
(***************************************************************************)
(* A state-machine model of EDClient.py (ECHO Data Client): the replay of  *)
(* pending database transactions (ECHOptxHandler), the multi-transfer loop *)
(* (ECHOdownloader.multidownload), the working set of collections and      *)
(* granules (ECHOrequest), the database update (ECHOdbHandler.update) and  *)
(* the feasibility gate of the downloader (ECHOdownloader.__init__).       *)
(*                                                                         *)
(* SpecReplay follows processPending, SpecTransfer follows multidownload   *)
(* on its own, SpecMerge follows successive invocations from the request   *)
(* to savePending, SpecDownload follows one invocation from the            *)
(* construction of the downloader to cleanup, and SpecUpdate follows it to *)
(* the end of update.  The variables a specification does not follow stay  *)
(* at their idle values.                                                   *)
(***************************************************************************)
EXTENDS Integers, Sequences, FiniteSets, TLC

(***************************************************************************)
(* Bounds of the model.                                                    *)
(***************************************************************************)
\* Largest number of entries in one pending-transaction record.
MaxTx == 3

(***************************************************************************)
(* State.                                                                  *)
(***************************************************************************)
\* ECHOptxHandler and the three pending-transaction files.
VARIABLES
    ptxFile,     \* kind -> the file _ptxC.xml / _ptxG.xml / _ptxP.xml
    ptxFile0,    \* the three files as they were when the run started
    process,     \* kind -> processC / processG / processP
    rpc,         \* position of the run in the replay
    rkind,       \* index in KindOrder of the kind being replayed
    txs,         \* pendRoot.findall(xmltag): the entries being iterated
    txi,         \* index in txs of the current transaction
    pendRoot,    \* the children of pendRoot still present
    inserts,     \* every makeDBinsert of the replay: [kind, entry, ok]
    rewrite      \* outcome of open(tfn, 'w') after a failed insert

rvars == <<ptxFile, ptxFile0, process, rpc, rkind, txs, txi, pendRoot,
           inserts, rewrite>>

\* ECHOdownloader.multidownload.
VARIABLES
    tpc,            \* position in multidownload
    queue,          \* queue: the <<egid, filename>> not yet handed to a handle
    num_urls,       \* len(queue) on entry
    num_processed,  \* completions counted so far
    freelist,       \* the idle handles; pop() takes the last one
    inflight,       \* the handles added to the CurlMulti stack
    cegid,          \* handle -> c.egid, the item it was last given (0: none)
    curlMsgs,       \* libcurl's completion messages not yet read: <<handle, result>>
    granuleStatus,  \* self.granuleStatus: egid -> 0 | 1 | -1 | -2
    files,          \* the local files that exist
    started,        \* every add_handle so far: <<handle, egid>>
    completed       \* every completion read so far: <<handle, egid, status>>

tvars == <<tpc, queue, num_urls, num_processed, freelist, inflight, cegid,
           curlMsgs, granuleStatus, files, started, completed>>

\* ECHOrequest, ECHOdownloader and the position of __main__.
VARIABLES
    dbFlag,            \* ECHOrequest.dbFlag == "True"
    mpc,               \* position of __main__
    run,               \* number of the invocation
    qi,                \* dataset queries already issued by getReqData
    collContainer,     \* ECHOrequest.collContainer
    numCollections,    \* ECHOrequest.numCollections
    pdlFile,           \* the file pendingDwnld.xml
    havePendDwnld,     \* ECHOrequest.havePendDwnld
    pendColls,         \* loadPendDwnld: the <collection> elements being iterated
    lci,               \* loadPendDwnld: index of the current <collection>
    lgi,               \* loadPendDwnld: index of the next <granule> of it
    collIndex,         \* loadPendDwnld: collIndex
    availDiskSpaceMB,  \* ECHOrequest.availDiskSpaceMB
    dwnloadLimit,      \* ECHOrequest.dwnloadLimit
    dirs,              \* the storage directories: path -> "none" | "ro" | "rw"
    dirOps,            \* every os.makedirs / os.chmod attempted
    granuleQueue,      \* ECHOdownloader.granuleQueue
    logged,            \* pending-download records written to the log instead
    catalog,           \* the ECHO catalog: granule id -> [coll, size, ppts, url]
    request,           \* the <dataset> elements of the request file
    dataSetQueries,    \* ECHOrequest.dataSetQueries
    maxDataFiles,      \* ECHOrequest.maxDataFiles, the --resultsize of the run
    hitsReceived       \* the echo-hits header of each granule query answered

wvars == <<dbFlag, mpc, run, qi, collContainer, numCollections, pdlFile,
           havePendDwnld, pendColls, lci, lgi, collIndex, availDiskSpaceMB,
           dwnloadLimit, dirs, dirOps, granuleQueue, logged, catalog, request,
           dataSetQueries, maxDataFiles, hitsReceived>>

\* ECHOdbHandler.update.
VARIABLES
    upc,        \* position in update
    uci,        \* index of the collection being processed
    ugi,        \* index of the granule being processed
    upi,        \* index of the polypoint being processed
    dbInserts   \* every insert attempted by update: [kind, c, g, p, ok]

uvars == <<upc, uci, ugi, upi, dbInserts>>

\* The text of the SQL inserts: one entity taken through savePendTx and
\* processtx on one side and through update's insert on the other.
VARIABLES
    spc,        \* position: "idle", "entity", "captured", "replayed", "done"
    entity,     \* the Collection, Granule or PolyPoint and its owner's id
    pendEntry,  \* the element make*element adds for it
    replaySql,  \* the statement processtx builds from the element
    freshSql    \* the statement collection/granule/polypointInsert builds

svars == <<spc, entity, pendEntry, replaySql, freshSql>>

\* The local store and what was downloaded, over all the invocations.
VARIABLES
    store,      \* the granule ids given a row in the granules table
    fetched,    \* the granule ids some transfer of which ended with status 1
    failed,     \* the granule ids some attempt at which ended with -1 or -2
    storeC,     \* the collection ids given a row in the collections table
    storeP,     \* the polypoints given a row in the polypoints table
    misread     \* update's lookup of a collection answered against the table

hvars == <<store, fetched, failed, storeC, storeP, misread>>

vars == <<rvars, tvars, wvars, uvars, svars, hvars>>

NotR == <<tvars, wvars, uvars, svars>>
NotT == <<rvars, wvars, uvars, svars>>

(***************************************************************************)
(* Generic helpers.                                                        *)
(***************************************************************************)
Range(s) == {s[i] : i \in DOMAIN s}

\* The sequence 1, 2, ..., n.
Iota(n) == [i \in 1..n |-> i]

\* list.remove(x) / Element.remove(child): drops the first occurrence of x.
RECURSIVE RemoveFirst(_, _)
RemoveFirst(s, x) ==
    IF s = <<>> THEN <<>>
    ELSE IF Head(s) = x THEN Tail(s)
    ELSE <<Head(s)>> \o RemoveFirst(Tail(s), x)

(***************************************************************************)
(* PART 1.  ECHOptxHandler: replay of pending database transactions.       *)
(*                                                                         *)
(* A durable queue is a file.  Its content is a sequence of XML documents, *)
(* each a sequence of entries; ET.parse accepts a file that holds exactly  *)
(* one document.  An entry is identified by its position in the record the *)
(* run started with.                                                       *)
(***************************************************************************)
\* A file: whether it exists and, if so, the documents it holds.
Absent == [exists |-> FALSE, docs |-> <<>>]
File(docs) == [exists |-> TRUE, docs |-> docs]

Kinds == {"C", "G", "P"}

\* The order in which processPending handles the three kinds.
KindOrderGFirst == <<"G", "C", "P">>
KindOrder == <<"C", "G", "P">>

\* ET.parse succeeds on a file that holds exactly one document.
ParseOk(f) == Len(f.docs) = 1

\* pendRoot.remove(transaction) after a successful insert.
RemoveTxKeep(root, tx) == root
RemoveTx(root, tx) == RemoveFirst(root, tx)

\* ET.tostring(pendRoot) written to the file re-opened in 'w' mode.
RewrittenFile(root) == File(<<root>>)

\* The files a run can find: none, a record of 0..MaxTx entries, or a file
\* that is not one well-formed document (empty, or two documents).
PtxContents ==
    {Absent} \cup {File(<<Iota(n)>>) : n \in 0..MaxTx}
             \cup {File(<<>>), File(<<Iota(1), Iota(1)>>)}

RInit ==
    /\ ptxFile \in [Kinds -> PtxContents]
    /\ ptxFile0 = ptxFile
    /\ process = [k \in Kinds |-> FALSE]
    /\ rpc = "main"
    /\ rkind = 1
    /\ txs = <<>>
    /\ txi = 1
    /\ pendRoot = <<>>
    /\ inserts = <<>>
    /\ rewrite = "none"

\* __main__ 2116: replay is skipped unless DB tracking is enabled.
SkipReplay ==
    /\ rpc = "main"
    /\ ~dbFlag
    /\ rpc' = "replayed"
    /\ UNCHANGED NotR
    /\ UNCHANGED hvars
    /\ UNCHANGED <<ptxFile, ptxFile0, process, rkind, txs, txi,
                   pendRoot, inserts, rewrite>>

\* havePending: os.access(F_OK) on each file sets the three flags.
HavePending ==
    /\ rpc = "main"
    /\ dbFlag
    /\ process' = [k \in Kinds |-> ptxFile[k].exists]
    /\ rpc' = IF \E k \in Kinds : ptxFile[k].exists THEN "open" ELSE "replayed"
    /\ UNCHANGED NotR
    /\ UNCHANGED hvars
    /\ UNCHANGED <<ptxFile, ptxFile0, rkind, txs, txi, pendRoot,
                   inserts, rewrite>>

\* openPending: every flagged file is opened for reading.
OpenPendingOk ==
    /\ rpc = "open"
    /\ rpc' = "kind"
    /\ rkind' = 1
    /\ UNCHANGED NotR
    /\ UNCHANGED hvars
    /\ UNCHANGED <<ptxFile, ptxFile0, process, txs, txi, pendRoot,
                   inserts, rewrite>>

\* openPending: an open() raises IOError, the run exits.
OpenPendingFail ==
    /\ rpc = "open"
    /\ rpc' = "exit"
    /\ UNCHANGED NotR
    /\ UNCHANGED hvars
    /\ UNCHANGED <<ptxFile, ptxFile0, process, rkind, txs, txi,
                   pendRoot, inserts, rewrite>>

\* processPending: a kind whose flag is not set is passed over.
SkipKind ==
    /\ rpc = "kind"
    /\ rkind <= Len(KindOrder)
    /\ ~process[KindOrder[rkind]]
    /\ rkind' = rkind + 1
    /\ UNCHANGED NotR
    /\ UNCHANGED hvars
    /\ UNCHANGED <<ptxFile, ptxFile0, process, rpc, txs, txi,
                   pendRoot, inserts, rewrite>>

\* processtx: ET.parse of the kind's file, then findall(xmltag).
ParseTx ==
    /\ rpc = "kind"
    /\ rkind <= Len(KindOrder)
    /\ process[KindOrder[rkind]]
    /\ LET f == ptxFile[KindOrder[rkind]] IN
         IF f.exists /\ ParseOk(f)
         THEN /\ txs' = f.docs[1]
              /\ pendRoot' = f.docs[1]
              /\ txi' = 1
              /\ rpc' = "tx"
         ELSE /\ rpc' = "exit"
              /\ UNCHANGED <<txs, pendRoot, txi>>
    /\ UNCHANGED NotR
    /\ UNCHANGED hvars
    /\ UNCHANGED <<ptxFile, ptxFile0, process, rkind, inserts, rewrite>>

\* The granID of a granule entry: the row a replayed granule insert commits.
GranuleOfEntry(e) == e % 10

\* The row a polypoint insert commits, from the granID and the position of
\* the point, and the granID it refers to.
PolyRow(gid, pi) == 10 * gid + pi
GranuleOfPolyRow(p) == p \div 10

\* processtx 1921 and 1940: transaction.find(f).text is None for an element
\* written with an empty text, and "'" + v + "'" raises TypeError; of the
\* fields read only the localFileName of a granule can be empty.
RaisesTypeError(kind, e) == kind = "G" /\ e >= 100

\* processtx: building the statement of the entry raises; the exception is
\* not caught, the file is left as it is and the invocation ends.
BuildRaises ==
    /\ rpc = "tx"
    /\ txi <= Len(txs)
    /\ RaisesTypeError(KindOrder[rkind], txs[txi])
    /\ rpc' = "exit"
    /\ UNCHANGED NotR
    /\ UNCHANGED hvars
    /\ UNCHANGED <<ptxFile, ptxFile0, process, rkind, txs, txi, pendRoot, inserts,
                   rewrite>>

\* processtx: makeDBinsert returns True; the entry is removed from pendRoot.
InsertOk ==
    /\ rpc = "tx"
    /\ txi <= Len(txs)
    /\ ~RaisesTypeError(KindOrder[rkind], txs[txi])
    /\ inserts' = Append(inserts,
                         [kind |-> KindOrder[rkind], entry |-> txs[txi], ok |-> TRUE])
    /\ pendRoot' = RemoveTx(pendRoot, txs[txi])
    /\ txi' = txi + 1
    /\ store' = IF KindOrder[rkind] = "G" THEN store \cup {GranuleOfEntry(txs[txi])}
                ELSE store
    /\ storeC' = IF KindOrder[rkind] = "C" THEN storeC \cup {txs[txi]} ELSE storeC
    /\ storeP' = IF KindOrder[rkind] = "P" THEN storeP \cup {txs[txi]} ELSE storeP
    /\ UNCHANGED NotR
    /\ UNCHANGED <<fetched, failed, misread>>
    /\ UNCHANGED <<ptxFile, ptxFile0, process, rpc, rkind, txs, rewrite>>

\* processtx: makeDBinsert returns False; the file is re-opened in 'w' mode
\* and pendRoot is written to it, or the re-open raises IOError; SystemExit.
InsertFail ==
    /\ rpc = "tx"
    /\ txi <= Len(txs)
    /\ ~RaisesTypeError(KindOrder[rkind], txs[txi])
    /\ inserts' = Append(inserts,
                         [kind |-> KindOrder[rkind], entry |-> txs[txi], ok |-> FALSE])
    /\ \/ /\ rewrite' = "written"
          /\ ptxFile' = [ptxFile EXCEPT ![KindOrder[rkind]] = RewrittenFile(pendRoot)]
       \/ /\ rewrite' = "openFailed"
          /\ UNCHANGED ptxFile
    /\ rpc' = "exit"
    /\ UNCHANGED NotR
    /\ UNCHANGED hvars
    /\ UNCHANGED <<ptxFile0, process, rkind, txs, txi, pendRoot>>

\* processtx 1903-1974: the loop over the entries of the record has run to
\* its end, no insert having failed; processtx returns to processPending.
ProcesstxReturnedEarly(txlist, i) == i > 1
ProcesstxReturned(txlist, i) == i > Len(txlist)

\* processPending: processtx returned, os.remove of the kind's file succeeds.
RemoveFileOk ==
    /\ rpc = "tx"
    /\ ProcesstxReturned(txs, txi)
    /\ ptxFile' = [ptxFile EXCEPT ![KindOrder[rkind]] = Absent]
    /\ rkind' = rkind + 1
    /\ rpc' = "kind"
    /\ UNCHANGED NotR
    /\ UNCHANGED hvars
    /\ UNCHANGED <<ptxFile0, process, txs, txi, pendRoot, inserts, rewrite>>

\* processPending: os.remove raises OSError, the run exits.
RemoveFileFail ==
    /\ rpc = "tx"
    /\ ProcesstxReturned(txs, txi)
    /\ rpc' = "exit"
    /\ UNCHANGED NotR
    /\ UNCHANGED hvars
    /\ UNCHANGED <<ptxFile, ptxFile0, process, rkind, txs, txi,
                   pendRoot, inserts, rewrite>>

\* processPending returns: the run goes on to the catalog queries.
ReplayDone ==
    /\ rpc = "kind"
    /\ rkind > Len(KindOrder)
    /\ rpc' = "replayed"
    /\ UNCHANGED NotR
    /\ UNCHANGED hvars
    /\ UNCHANGED <<ptxFile, ptxFile0, process, rkind, txs, txi,
                   pendRoot, inserts, rewrite>>

RNext ==
    \/ SkipReplay
    \/ HavePending
    \/ OpenPendingOk
    \/ OpenPendingFail
    \/ SkipKind
    \/ ParseTx
    \/ InsertOk
    \/ InsertFail
    \/ RemoveFileOk
    \/ RemoveFileFail
    \/ ReplayDone

(***************************************************************************)
(* Claims on the replay.                                                   *)
(***************************************************************************)
\* Referential-integrity rank of a kind: collections, granules, polypoints.
Rank(k) == CASE k = "C" -> 1 [] k = "G" -> 2 [] k = "P" -> 3

\* The entries of the record a kind's file held when the run started.
Entries0(k) == UNION {Range(ptxFile0[k].docs[d]) : d \in DOMAIN ptxFile0[k].docs}

\* The insert of entry e of kind k succeeded before the j-th attempt.
InsertedBefore(k, e, j) ==
    \E i \in 1..(j - 1) : inserts[i] = [kind |-> k, entry |-> e, ok |-> TRUE]

\* C1: inserts are attempted in the order collections, granules, polypoints,
\* and when an insert of some kind is attempted, every queue of an earlier
\* kind that existed at the start has been removed, each of its entries
\* having been inserted successfully before.
C1_ReplayOrder ==
    \A j \in DOMAIN inserts :
        /\ \A i \in 1..(j - 1) : Rank(inserts[i].kind) <= Rank(inserts[j].kind)
        /\ \A k \in Kinds :
              (Rank(k) < Rank(inserts[j].kind) /\ ptxFile0[k].exists) =>
                  /\ ~ptxFile[k].exists
                  /\ \A e \in Entries0(k) : InsertedBefore(k, e, j)

\* C1 witness: with all three queues present, a polypoint entry has been
\* attempted after collection and granule entries.
C1_Witness ==
    /\ \A k \in Kinds : ptxFile0[k].exists
    /\ \E h, i, j \in DOMAIN inserts :
          /\ h < i /\ i < j
          /\ inserts[h].kind = "C" /\ inserts[i].kind = "G" /\ inserts[j].kind = "P"

\* C14: a queue is deleted only when every entry of its record has been
\* inserted successfully and no insert of its kind has failed, and the
\* replay moves on to the next kind only with the queue of the kind just
\* replayed deleted.
C14_DeleteAfterReplay ==
    [][\A k \in Kinds :
          /\ (ptxFile[k].exists /\ ~ptxFile'[k].exists) =>
                /\ \A e \in Entries0(k) : InsertedBefore(k, e, Len(inserts) + 1)
                /\ \A i \in DOMAIN inserts : inserts[i].kind = k => inserts[i].ok
          /\ (rkind' > rkind /\ k = KindOrder[rkind] /\ ptxFile0[k].exists) =>
                ~ptxFile'[k].exists]_vars

\* C14 witness: the collection queue held MaxTx entries, all were inserted
\* and the queue is gone, and the replay is at the entries of a later kind.
C14_Witness ==
    /\ Len(ptxFile0["C"].docs) = 1 /\ Len(ptxFile0["C"].docs[1]) = MaxTx
    /\ ~ptxFile["C"].exists
    /\ rpc = "tx" /\ rkind > 1

\* The attempts whose insert failed.
FailedAt == {i \in DOMAIN inserts : ~inserts[i].ok}

\* The entries from entry e on, of the record kind k started with.
SuffixFrom(k, e) ==
    LET d == ptxFile0[k].docs[1] IN SubSeq(d, e, Len(d))

\* What C2 and its amendment share: a failed insert is the last attempt,
\* the run has exited, and the files of the later kinds are as they were.
FailFastFrame(i) ==
    /\ i = Len(inserts)
    /\ rpc = "exit"
    /\ \A k \in Kinds :
          Rank(k) > Rank(inserts[i].kind) => ptxFile[k] = ptxFile0[k]

concurrent_conns == 2
MaxItems == 3

Handles == 1..concurrent_conns

\* A Python dict as a function on its keys.
EmptyDict == [k \in {} |-> 0]
DictSet(d, k, v) == [x \in DOMAIN d \cup {k} |-> IF x = k THEN v ELSE d[x]]

\* freelist.pop(): the handle taken, and the list left.
PopKeep(fl) == fl
Pop(fl) == SubSeq(fl, 1, Len(fl) - 1)
Last(fl) == fl[Len(fl)]

\* The status recorded for a completion: ok_list -> 1, err_list -> -1.
StatusOfSingle(res) == IF res = "ok" THEN 1 ELSE 0
StatusOf(res) == IF res = "ok" THEN 1 ELSE -1

\* The members of a sequence that satisfy a test, in order.
RECURSIVE SelectRes(_, _)
SelectRes(msgs, res) ==
    IF msgs = <<>> THEN <<>>
    ELSE IF Head(msgs)[2] = res THEN <<Head(msgs)>> \o SelectRes(Tail(msgs), res)
    ELSE SelectRes(Tail(msgs), res)

\* The for-loops over ok_list and err_list: each handle's status is stored
\* under its c.egid.
RECURSIVE RecordAll(_, _)
RecordAll(gs, msgs) ==
    IF msgs = <<>> THEN gs
    ELSE RecordAll(DictSet(gs, cegid[Head(msgs)[1]], StatusOf(Head(msgs)[2])),
                   Tail(msgs))

\* multidownload 1527-1547: the statuses of the ok_list and of the err_list
\* of one info_read are both stored.
RecordedOkOnly(gs, oks, errs) == RecordAll(gs, oks)
Recorded(gs, oks, errs) == RecordAll(gs, oks \o errs)

\* The handles of a list of messages, and the log entries of their completion.
HandlesOf(msgs) == [i \in DOMAIN msgs |-> msgs[i][1]]
LogOf(msgs) ==
    [i \in DOMAIN msgs |-> <<msgs[i][1], cegid[msgs[i][1]], StatusOf(msgs[i][2])>>]

\* All orderings of a finite set as sequences.
Perms(S) ==
    {f \in [1..Cardinality(S) -> S] : \A i, j \in 1..Cardinality(S) : i # j => f[i] # f[j]}

TInitWith(q, gs, fs) ==
    /\ tpc = "loop"
    /\ queue = q
    /\ num_urls = Len(q)
    /\ num_processed = 0
    /\ freelist = Iota(concurrent_conns)
    /\ inflight = {}
    /\ cegid = [h \in Handles |-> 0]
    /\ curlMsgs = <<>>
    /\ granuleStatus = gs
    /\ files = fs
    /\ started = <<>>
    /\ completed = <<>>

\* multidownload is entered with a queue of 1..MaxItems distinct granules.
TInit == \E m \in 1..MaxItems :
            TInitWith([i \in 1..m |-> <<i, i>>], EmptyDict, {})

\* while num_processed < num_urls
LoopTest ==
    /\ tpc = "loop"
    /\ tpc' = IF num_processed < num_urls THEN "fill" ELSE "done"
    /\ UNCHANGED <<queue, num_urls, num_processed, freelist, inflight, cegid,
                   curlMsgs, granuleStatus, files, started, completed>>
    /\ UNCHANGED NotT
    /\ UNCHANGED hvars

\* while queue and freelist: one item is handed to one free handle.
Fill ==
    /\ tpc = "fill"
    /\ queue # <<>> /\ freelist # <<>>
    /\ LET egid     == Head(queue)[1]
           filename == Head(queue)[2]
           c        == Last(freelist)
       IN  /\ queue' = Tail(queue)
           /\ freelist' = Pop(freelist)
           /\ files' = files \cup {filename}
           /\ inflight' = inflight \cup {c}
           /\ cegid' = [cegid EXCEPT ![c] = egid]
           /\ started' = Append(started, <<c, egid>>)
    /\ UNCHANGED <<tpc, num_urls, num_processed, curlMsgs, granuleStatus, completed>>
    /\ UNCHANGED NotT
    /\ UNCHANGED hvars

\* m.perform(): libcurl runs; any of the running transfers may finish, each
\* as a success or an error, and queues its message.
Perform ==
    /\ tpc = "fill"
    /\ queue = <<>> \/ freelist = <<>>
    /\ \E D \in SUBSET (inflight \ Range(HandlesOf(curlMsgs))) :
          \E order \in Perms(D) :
             \E res \in [D -> {"ok", "err"}] :
                curlMsgs' = curlMsgs \o [i \in DOMAIN order |-> <<order[i], res[order[i]]>>]
    /\ tpc' = "read"
    /\ UNCHANGED <<queue, num_urls, num_processed, freelist, inflight, cegid,
                   granuleStatus, files, started, completed>>
    /\ UNCHANGED NotT
    /\ UNCHANGED hvars

\* num_processed + len(ok_list) + len(err_list)
ProcessedOkOnly(oks, errs) == Len(oks)
Processed(oks, errs) == Len(oks) + Len(errs)

\* m.info_read(): some of the queued messages are returned, num_q are left;
\* the ok_list handles are processed, then the err_list handles.
InfoRead ==
    /\ tpc = "read"
    /\ \E n \in 0..Len(curlMsgs) :
          LET got  == SubSeq(curlMsgs, 1, n)
              oks  == SelectRes(got, "ok")
              errs == SelectRes(got, "err")
              num_q == Len(curlMsgs) - n
          IN  /\ curlMsgs' = SubSeq(curlMsgs, n + 1, Len(curlMsgs))
              /\ inflight' = inflight \ Range(HandlesOf(got))
              /\ granuleStatus' = Recorded(granuleStatus, oks, errs)
              /\ freelist' = freelist \o HandlesOf(oks) \o HandlesOf(errs)
              /\ completed' = completed \o LogOf(oks \o errs)
              /\ num_processed' = num_processed + Processed(oks, errs)
              /\ tpc' = IF num_q = 0 THEN "loop" ELSE "read"
              /\ fetched' = fetched \cup {cegid[h] : h \in Range(HandlesOf(oks))}
              /\ failed' = failed \cup {cegid[h] : h \in Range(HandlesOf(errs))}
    /\ UNCHANGED <<queue, num_urls, cegid, files, started>>
    /\ UNCHANGED NotT
    /\ UNCHANGED <<store, storeC, storeP, misread>>

TNext ==
    \/ LoopTest
    \/ Fill
    \/ Perform
    \/ InfoRead


(***************************************************************************)
(* Claims on the multi-transfer loop.                                      *)
(***************************************************************************)
\* How many entries of a log satisfy: first component (the handle) is h.
CountHandle(log, h) == Cardinality({i \in DOMAIN log : log[i][1] = h})
\* How many entries of a log are about granule e (second component).
CountEgid(log, e) == Cardinality({i \in DOMAIN log : log[i][2] = e})

\* The granules handed to multidownload: those still queued and those started.
Items == {queue[i][1] : i \in DOMAIN queue} \cup {started[i][2] : i \in DOMAIN started}

\* C3: at every instant at most concurrent_conns transfers are in flight,
\* the in-flight and the idle handles together are exactly the pool, and a
\* handle has one started-and-unfinished transfer exactly while it is in
\* flight (it is never given a second item before its transfer is read).
C3_ConcurrencyBound ==
    tpc \in {"loop", "fill", "read", "done"} =>
        /\ Cardinality(inflight) <= concurrent_conns
        /\ Cardinality(inflight) + Len(freelist) = concurrent_conns
        /\ Range(freelist) \cap inflight = {}
        /\ Cardinality(Range(freelist)) = Len(freelist)
        /\ \A h \in Handles :
              CountHandle(started, h) - CountHandle(completed, h)
                  = IF h \in inflight THEN 1 ELSE 0

\* C3 witness: every handle is in flight while an item is still queued.
C3_Witness ==
    /\ Cardinality(inflight) = concurrent_conns
    /\ queue # <<>>

MaxQueries == 2
MaxColl == 2
MaxGran == 2
MaxRuns == 2
\* A disk and a download limit larger than any working set.
BigDisk == 100
\* Largest granule size, free disk space and download limit drawn, in MB.
MaxSizeMB == 2
MaxDiskMB == 4
MaxLimitMB == 3

CollIds == 1..MaxColl
GranIds == 1..MaxGran

\* The collection a catalog with every collection populated files a granule
\* under.
CollOf(g) == ((g - 1) % MaxColl) + 1

\* rootDir/archCenter/shortName/YYYY/DDD of a granule of a collection, and
\* the file in it.  Both follow from the begin date and the first access
\* URL of the granule, which the catalog gives as url: two granules of a
\* collection with the same day and URL basename have the same url.
LeafOf(cid, url) == 10 * cid + url
PathIds == CollIds \cup {LeafOf(c, g) : c \in CollIds, g \in GranIds}

\* ECHOcollection.__init__ and ECHOgranule.__init__.
ECHOcollection(cid) ==
    [collID |-> cid, granContainer |-> <<>>, haveFailedDwnlds |-> FALSE,
     dbInsertFailed |-> FALSE]
ECHOgranule(gid, size, ppts, aurl, lfn, dltrys) ==
    [egid |-> gid, granuleSizeMB |-> size, accessURL |-> aurl, localFileName |-> lfn,
     numDloadTrys |-> dltrys, downloadStatus |-> 0,
     polyPoints |-> [i \in DOMAIN ppts |-> FALSE], dbInsertFailed |-> FALSE]

\* ECHOcollection.getGranules: one granule per <result>, try count 1.
GetGranules(coll, results) ==
    [coll EXCEPT !.granContainer =
        @ \o [i \in DOMAIN results |->
                 ECHOgranule(results[i].egid, results[i].size, results[i].ppts,
                             results[i].url, 0, 1)]]

\* The granule query responses a catalog can give for a collection: the
\* granules of a subset of its ids, in ascending order.
RECURSIVE AscSeq(_)
AscSeq(S) ==
    IF S = {} THEN <<>>
    ELSE LET m == CHOOSE x \in S : \A y \in S : x <= y
         IN  <<m>> \o AscSeq(S \ {m})
GranuleResponses(cat, cid) ==
    { [i \in DOMAIN AscSeq(S) |->
          [egid |-> AscSeq(S)[i], size |-> cat[AscSeq(S)[i]].size,
           ppts |-> cat[AscSeq(S)[i]].ppts, url |-> cat[AscSeq(S)[i]].url]]
      : S \in SUBSET {g \in GranIds : cat[g].coll = cid} }

\* makeGranuleQuery 881-911: the granules that match are the hits; when
\* there are more hits than maxFiles the response is replaced by an empty
\* <results>, otherwise the page (page_size is the same number) holds them
\* all.
MakeGranuleQueryFirstPage(hits, maxFiles) ==
    IF Len(hits) > maxFiles THEN SubSeq(hits, 1, maxFiles) ELSE hits
MakeGranuleQuery(hits, maxFiles) ==
    IF Len(hits) > maxFiles THEN <<>> ELSE hits

\* The hit counts behind a working set fetched with no result over the cap.
HitsOf(cc) == [i \in DOMAIN cc |-> Len(cc[i].granContainer)]

\* The working sets getReqData can build from a catalog.
WorkingSets(cat) ==
    LET resps == UNION {GranuleResponses(cat, c) : c \in CollIds} IN
    UNION { { [i \in 1..n |-> GetGranules(ECHOcollection(q[i][1]), q[i][2])]
              : q \in {r \in [1..n -> CollIds \X resps] :
                          \A i \in 1..n : r[i][2] \in GranuleResponses(cat, r[i][1])} }
            : n \in 0..MaxQueries }

\* inCollections: the (1-based) index of the first collection with the id,
\* or -1.
InCollections(cc, cid) ==
    IF \E i \in DOMAIN cc : cc[i].collID = cid
    THEN CHOOSE i \in DOMAIN cc :
             cc[i].collID = cid /\ \A j \in 1..(i - 1) : cc[j].collID # cid
    ELSE -1

\* inGranules: index counts the granules passed over in the collections that
\* carry the id, in container order, up to the first with the granule id;
\* the (1-based) count, or -1.
RECURSIVE InGranulesFrom(_, _, _, _, _, _)
InGranulesFrom(cc, cid, gid, ci, gi, index) ==
    IF ci > Len(cc) THEN -1
    ELSE IF cc[ci].collID # cid \/ gi > Len(cc[ci].granContainer)
         THEN InGranulesFrom(cc, cid, gid, ci + 1, 1, index)
    ELSE IF cc[ci].granContainer[gi].egid = gid THEN index + 1
    ELSE InGranulesFrom(cc, cid, gid, ci, gi + 1, index + 1)
InGranules(cc, cid, gid) == InGranulesFrom(cc, cid, gid, 1, 1, 0)

\* loadPendDwnld 560-561 and 596/601: the try count given to a merged granule.
MergedTrys(dwnldtrys) ==
    LET numDwnldTrys == dwnldtrys + 1 IN numDwnldTrys + 1

\* loadPendDwnld 601: granContainer[granIndex] raises IndexError.
MergeCrashes(cc, ci, cid, g) ==
    LET granIndex == InGranules(cc, cid, g.granID) IN
    granIndex # -1 /\ granIndex > Len(cc[ci].granContainer)

\* loadPendDwnld 589-601: one <granule> of the record is merged.
MergeGranule(cc, ci, cid, g) ==
    LET granIndex == InGranules(cc, cid, g.granID) IN
    IF granIndex = -1
    THEN [cc EXCEPT ![ci].granContainer =
             Append(@, ECHOgranule(g.granID, g.sizeMB, g.polyPoints, g.accessURL,
                                   g.localFileName, MergedTrys(g.dwnldtrys)))]
    ELSE [cc EXCEPT ![ci].granContainer[granIndex].numDloadTrys =
             MergedTrys(g.dwnldtrys)]

\* getCollSizeMB summed over the collections (downloadOk 1274-1278).
RECURSIVE SumSizes(_)
SumSizes(gs) ==
    IF gs = <<>> THEN 0 ELSE Head(gs).granuleSizeMB + SumSizes(Tail(gs))
RECURSIVE TotalDataSizeMB(_)
TotalDataSizeMB(cc) ==
    IF cc = <<>> THEN 0
    ELSE SumSizes(Head(cc).granContainer) + TotalDataSizeMB(Tail(cc))

\* downloadOk 1284-1303.
DownloadOkNoLimit(cc, avail, limit) ==
    LET totalDataSizeMB == TotalDataSizeMB(cc) IN
    IF totalDataSizeMB <= 0 THEN TRUE
    ELSE IF totalDataSizeMB >= avail THEN FALSE
    ELSE TRUE
DownloadOkFullDisk(cc, avail, limit) ==
    LET totalDataSizeMB == TotalDataSizeMB(cc) IN
    IF totalDataSizeMB <= 0 THEN TRUE
    ELSE IF totalDataSizeMB > avail THEN FALSE
    ELSE IF totalDataSizeMB > limit THEN FALSE
    ELSE TRUE
DownloadOk(cc, avail, limit) ==
    LET totalDataSizeMB == TotalDataSizeMB(cc) IN
    IF totalDataSizeMB <= 0 THEN TRUE
    ELSE IF totalDataSizeMB >= avail THEN FALSE
    ELSE IF totalDataSizeMB > limit THEN FALSE
    ELSE TRUE

\* The storage paths and the granule ids a working set refers to.
PathsOf(cc) ==
    UNION {{cc[ci].collID} \cup
           {LeafOf(cc[ci].collID, cc[ci].granContainer[gi].accessURL) :
               gi \in DOMAIN cc[ci].granContainer} : ci \in DOMAIN cc}
EgidsOf(cc) ==
    UNION {{cc[ci].granContainer[gi].egid : gi \in DOMAIN cc[ci].granContainer} :
           ci \in DOMAIN cc}

\* makeCollPath / makeGranPath on a path whose one os.makedirs or os.chmod,
\* if it comes to it, succeeds iff ok: the result, the directories and the
\* operations attempted.
MakePath(d, ops, path, ok) ==
    IF d[path] = "rw" THEN [ok |-> TRUE, dirs |-> d, ops |-> ops]
    ELSE LET op == IF d[path] = "none" THEN "makedirs" ELSE "chmod" IN
         [ok   |-> ok,
          dirs |-> IF ok THEN [d EXCEPT ![path] = "rw"] ELSE d,
          ops  |-> Append(ops, <<op, path>>)]

\* downloadGranules 1380-1421 for the granules gi.. of collection ci, the
\* collection path being ready.  acc is [cc, queue, gs, dirs, ops].
RECURSIVE PlanGranules(_, _, _, _, _, _)
PlanGranules(acc, ci, gi, noMk, inDB, useDB) ==
    IF gi > Len(acc.cc[ci].granContainer) THEN acc
    ELSE LET g    == acc.cc[ci].granContainer[gi]
             leaf == LeafOf(acc.cc[ci].collID, g.accessURL)
             r    == MakePath(acc.dirs, acc.ops, leaf, leaf \notin noMk)
             a1   == [acc EXCEPT !.dirs = r.dirs, !.ops = r.ops]
             a2   == IF ~r.ok
                     THEN [a1 EXCEPT !.gs = DictSet(@, g.egid, -2)]
                     ELSE LET a == [a1 EXCEPT
                                      !.cc[ci].granContainer[gi].localFileName = leaf]
                          IN  IF useDB /\ g.egid \in inDB
                              THEN [a EXCEPT !.gs = DictSet(@, g.egid, 0)]
                              ELSE [a EXCEPT !.queue = Append(@, <<g.egid, leaf>>)]
         IN  PlanGranules(a2, ci, gi + 1, noMk, inDB, useDB)

\* downloadGranules 1425-1426: the collection directory could not be made.
RECURSIVE FailGranules(_, _, _)
FailGranules(acc, ci, gi) ==
    IF gi > Len(acc.cc[ci].granContainer) THEN acc
    ELSE FailGranules([acc EXCEPT !.gs =
                          DictSet(@, acc.cc[ci].granContainer[gi].egid, -2)],
                      ci, gi + 1)

\* downloadGranules 1422-1426: makeCollPath returned False; all the granules
\* of the collection are marked and none is looked at further.
CollectionDirFailedSkip(acc, ci) == acc
CollectionDirFailed(acc, ci) == FailGranules(acc, ci, 1)

\* downloadGranules 1372-1426: the planning loop over the collections.
RECURSIVE PlanCollections(_, _, _, _, _)
PlanCollections(acc, ci, noMk, inDB, useDB) ==
    IF ci > Len(acc.cc) THEN acc
    ELSE IF Len(acc.cc[ci].granContainer) = 0
         THEN PlanCollections(acc, ci + 1, noMk, inDB, useDB)
    ELSE LET cid == acc.cc[ci].collID
             r   == MakePath(acc.dirs, acc.ops, cid, cid \notin noMk)
             a1  == [acc EXCEPT !.dirs = r.dirs, !.ops = r.ops]
             a2  == IF r.ok THEN PlanGranules(a1, ci, 1, noMk, inDB, useDB)
                    ELSE CollectionDirFailed(a1, ci)
         IN  PlanCollections(a2, ci + 1, noMk, inDB, useDB)

\* downloadGranules 1455-1460: the statuses are written back.
AllResolved(cc, gs) ==
    \A ci \in DOMAIN cc : \A gi \in DOMAIN cc[ci].granContainer :
        cc[ci].granContainer[gi].egid \in DOMAIN gs
ReconciledTransfersOnly(cc, gs) ==
    [ci \in DOMAIN cc |->
        [cc[ci] EXCEPT
           !.granContainer =
               [gi \in DOMAIN @ |->
                   [@[gi] EXCEPT !.downloadStatus =
                                     gs[cc[ci].granContainer[gi].egid]]],
           !.haveFailedDwnlds =
               @ \/ \E gi \in DOMAIN cc[ci].granContainer :
                       gs[cc[ci].granContainer[gi].egid] = -1]]
Reconciled(cc, gs) ==
    [ci \in DOMAIN cc |->
        [cc[ci] EXCEPT
           !.granContainer =
               [gi \in DOMAIN @ |->
                   [@[gi] EXCEPT !.downloadStatus =
                                     gs[cc[ci].granContainer[gi].egid]]],
           !.haveFailedDwnlds =
               @ \/ \E gi \in DOMAIN cc[ci].granContainer :
                       gs[cc[ci].granContainer[gi].egid] < 0]]

\* cleanup 1572-1582: the local files of the granules whose transfer failed.
FailedFiles(cc, fs) ==
    {f \in fs : \E ci \in DOMAIN cc : \E gi \in DOMAIN cc[ci].granContainer :
                   /\ cc[ci].granContainer[gi].downloadStatus = -1
                   /\ cc[ci].granContainer[gi].localFileName = f}

\* savePending 652-714: the record of the unresolved downloads.
PendingGranule(g) ==
    [granID |-> g.egid, dwnldtrys |-> g.numDloadTrys, dwnldstat |-> g.downloadStatus,
     sizeMB |-> g.granuleSizeMB, polyPoints |-> g.polyPoints,
     accessURL |-> g.accessURL, localFileName |-> g.localFileName]
PendingCollectionAll(c) ==
    [collID |-> c.collID,
     granules |-> [i \in DOMAIN c.granContainer |-> PendingGranule(c.granContainer[i])]]
PendingCollection(c) ==
    LET Unresolved(g) == g.downloadStatus < 0 IN
    [collID |-> c.collID,
     granules |-> [i \in DOMAIN SelectSeq(c.granContainer, Unresolved) |->
                      PendingGranule(SelectSeq(c.granContainer, Unresolved)[i])]]
PendingDocFirst(cc) ==
    LET Failed(c) == c.haveFailedDwnlds IN
    [i \in DOMAIN SubSeq(SelectSeq(cc, Failed), 1, 1) |->
        PendingCollection(SelectSeq(cc, Failed)[i])]
PendingDoc(cc) ==
    LET Failed(c) == c.haveFailedDwnlds IN
    [i \in DOMAIN SelectSeq(cc, Failed) |-> PendingCollection(SelectSeq(cc, Failed)[i])]

(***************************************************************************)
(* One invocation in download mode, from the construction of the request   *)
(* to savePending.                                                         *)
(***************************************************************************)
NotW == <<rvars, tvars, uvars, svars>>

(***************************************************************************)
(* The request file.  A <dataset> element is modelled by what              *)
(* loadDataSetQueries looks at: bb is the <boundingbox> ("ok", "partial"   *)
(* when one of w/s/e/n is missing, "none" when the element is missing),    *)
(* version tells whether <version> is present, temporal is the type        *)
(* attribute of <temporal> ("none" when the element is missing, "notype"   *)
(* when the attribute is empty), st and et tell whether <startdatetime>    *)
(* and <enddatetime> are present, and year, start and end are "ok",        *)
(* "missing" (no element) or "empty" (an element with empty attributes).   *)
(***************************************************************************)
YearLo == 2015
YearHi == 2017
Years == YearLo..YearHi

Leap(y) == (y % 4 = 0 /\ y % 100 # 0) \/ y % 400 = 0

\* datetime.date: the days of month m of year y.
DaysIn(y, m) ==
    IF m = 2 THEN (IF Leap(y) THEN 29 ELSE 28)
    ELSE IF m \in {4, 6, 9, 11} THEN 30 ELSE 31

\* datetime.date(y, m, d) raises ValueError unless the date exists.
DateExists(y, m, d) == m \in 1..12 /\ d \in 1..DaysIn(y, m)

RECURSIVE DaysBefore(_, _)
DaysBefore(y, m) == IF m <= 1 THEN 0 ELSE DaysBefore(y, m - 1) + DaysIn(y, m - 1)

\* 358, 361: date(y, m, d).toordinal() - date(y, 1, 1).toordinal() + 1.
DayOfYear(y, m, d) == DaysBefore(y, m) + d

Min(S) == CHOOSE x \in S : \A z \in S : x <= z
Max(S) == CHOOSE x \in S : \A z \in S : x >= z

\* 350-365: the day-of-year window of a recurring search.
TemporalStartDay(ds) ==
    Min({DayOfYear(yr, ds.mon_start, ds.day_start) : yr \in ds.yr_start..ds.yr_end})
TemporalEndDay(ds) ==
    Max({DayOfYear(yr, ds.mon_end, ds.day_end) : yr \in ds.yr_start..ds.yr_end})

\* 357, 360: every date built in the loop exists.
DatesExist(ds) ==
    \A yr \in ds.yr_start..ds.yr_end :
        /\ DateExists(yr, ds.mon_start, ds.day_start)
        /\ DateExists(yr, ds.mon_end, ds.day_end)

\* 388-391 and ECHOdsQuery.__init__ 749-783: the query descriptor; the day
\* window is part of the query of a recurring search only.
ECHOdsQuery(ds) ==
    IF ds.temporal = "recurring"
    THEN [temporalSearchType |-> "recurring",
          temporal_start_day |-> TemporalStartDay(ds),
          temporal_end_day |-> TemporalEndDay(ds),
          yr_start |-> ds.yr_start, yr_end |-> ds.yr_end]
    ELSE [temporalSearchType |-> "static", temporal_start_day |-> 0,
          temporal_end_day |-> 0, yr_start |-> 0, yr_end |-> 0]

\* 283-332: the checks of a recurring <temporal> made while its children are
\* read; they return False in whatever order the children come.
RecurringRejected(ds) ==
    \/ ds.year = "ok" /\ ds.yr_start > ds.yr_end
    \/ ds.start = "ok" /\ (ds.mon_start < 1 \/ ds.mon_start > 12)
    \/ ds.start = "ok" /\ (ds.day_start < 1 \/ ds.day_start > 31)
    \/ ds.end = "ok" /\ (ds.mon_end < 1 \/ ds.mon_end > 12)
    \/ ds.end = "ok" /\ (ds.day_end < 1 \/ ds.day_end > 31)

\* 283-365: the outcomes of a recurring <temporal>.  int(mon_start) at 326
\* raises ValueError on an empty attribute; with the element missing the
\* name is unbound (NameError) or still holds the previous dataset's value.
RecurringOutcomes(ds) ==
    IF RecurringRejected(ds) THEN {"invalid"}
    ELSE IF ds.start = "empty" \/ ds.end = "empty" THEN {"crash"}
    ELSE IF ds.start = "missing" \/ ds.end = "missing" THEN {"crash", "invalid"}
    ELSE IF ds.mon_start > ds.mon_end THEN {"invalid"}
    ELSE IF ds.year # "ok" THEN {"invalid"}
    ELSE IF ~DatesExist(ds) THEN {"crash"}
    ELSE {"ok"}

\* 260-381: the outcomes of the <temporal> element.
TemporalOutcomes(ds) ==
    CASE ds.temporal = "none" -> {"ok"}
      [] ds.temporal = "static" -> IF ds.st /\ ds.et THEN {"ok"} ELSE {"invalid"}
      [] ds.temporal = "recurring" -> RecurringOutcomes(ds)
      [] OTHER -> {"invalid"}

\* 237-385: the outcomes of one <dataset>: the checks made while the
\* criteria are read (in document order), then the three flags.
DatasetOutcomesNoFlags(ds) ==
    LET inLoop == (IF ds.bb = "partial" THEN {"invalid"} ELSE {})
                      \cup (TemporalOutcomes(ds) \ {"ok"})
    IN  IF inLoop # {} THEN inLoop ELSE {"ok"}
DatasetOutcomes(ds) ==
    LET inLoop == (IF ds.bb = "partial" THEN {"invalid"} ELSE {})
                      \cup (TemporalOutcomes(ds) \ {"ok"})
    IN  IF inLoop # {} THEN inLoop
        ELSE IF ~(ds.bb = "ok" /\ ds.version /\ ds.temporal # "none") THEN {"invalid"}
        ELSE {"ok"}

\* loadDataSetQueries 237-393: the possible results of loading the request:
\* "ok" with one descriptor per dataset, "invalid" (return False) or "crash"
\* (an exception nobody catches) at the first dataset not accepted.
RECURSIVE LoadFrom(_, _, _)
LoadFrom(req, i, acc) ==
    IF i > Len(req) THEN {[status |-> "ok", queries |-> acc]}
    ELSE UNION {IF o = "ok" THEN LoadFrom(req, i + 1, Append(acc, ECHOdsQuery(req[i])))
                ELSE {[status |-> o, queries |-> acc]} : o \in DatasetOutcomes(req[i])}

LoadDataSetQueries(req) == LoadFrom(req, 1, <<>>)

\* A well-formed static dataset and well-formed recurring ones.
StaticDataset ==
    [bb |-> "ok", version |-> TRUE, temporal |-> "static", st |-> TRUE, et |-> TRUE,
     year |-> "ok", yr_start |-> YearLo, yr_end |-> YearLo,
     start |-> "ok", mon_start |-> 1, day_start |-> 1,
     end |-> "ok", mon_end |-> 1, day_end |-> 1]

RecurringDataset(ys, ye, ms, dS, me, dE) ==
    [StaticDataset EXCEPT !.temporal = "recurring", !.yr_start = ys, !.yr_end = ye,
                          !.mon_start = ms, !.day_start = dS,
                          !.mon_end = me, !.day_end = dE]

\* A request of MaxQueries well-formed static datasets.
StaticRequest == [i \in 1..MaxQueries |-> StaticDataset]

\* ECHOrequest.__init__ 121-134: the pending-download file is opened if it
\* exists; open(self.pdlfile, 'r') may raise IOError.
\* 142-143: loadDataSetQueries fills dataSetQueries; on False the run ends
\* with SystemExit, and an exception it raises ends the run as well.
RequestInit ==
    /\ mpc = "start"
    /\ \E openOk \in BOOLEAN : havePendDwnld' = (pdlFile.exists /\ openOk)
    /\ collContainer' = <<>>
    /\ numCollections' = 0
    /\ qi' = 0
    /\ \E res \in LoadDataSetQueries(request) :
          /\ dataSetQueries' = res.queries
          /\ mpc' = CASE res.status = "ok" -> "query"
                      [] res.status = "invalid" -> "exit"
                      [] OTHER -> "crash"
    /\ hitsReceived' = <<>>
    /\ UNCHANGED <<dbFlag, run, pdlFile, pendColls, lci, lgi, collIndex,
                   availDiskSpaceMB, dwnloadLimit, dirs, dirOps, granuleQueue,
                   logged, catalog, request, maxDataFiles>>
    /\ UNCHANGED NotW
    /\ UNCHANGED hvars

\* __main__ 2113-2126: getReqData is called once the replay block has been
\* left: DB tracking is off, nothing is pending, or processPending returned.
ReplayReturnedAnytime == TRUE
ReplayReturned == rpc = "replayed"

\* getReqData 430-436: the dataset query returned 0 or several results.
DatasetQueryIgnored ==
    /\ mpc = "query" /\ qi < Len(dataSetQueries)
    /\ ReplayReturned
    /\ qi' = qi + 1
    /\ UNCHANGED <<dbFlag, mpc, run, collContainer, numCollections, pdlFile,
                   havePendDwnld, pendColls, lci, lgi, collIndex,
                   availDiskSpaceMB, dwnloadLimit, dirs, dirOps, granuleQueue,
                   logged, catalog, request, dataSetQueries, maxDataFiles, hitsReceived>>
    /\ UNCHANGED NotW
    /\ UNCHANGED hvars

\* getReqData 437-510: the dataset query returned one collection; it is
\* appended and its granules are fetched.
DatasetQueryOne ==
    /\ mpc = "query" /\ qi < Len(dataSetQueries)
    /\ ReplayReturned
    /\ \E collID \in CollIds : \E hits \in GranuleResponses(catalog, collID) :
          LET granElemRoot == MakeGranuleQuery(hits, maxDataFiles) IN
          /\ collContainer' =
                Append(collContainer, GetGranules(ECHOcollection(collID), granElemRoot))
          /\ hitsReceived' = Append(hitsReceived, Len(hits))
    /\ numCollections' = numCollections + 1
    /\ qi' = qi + 1
    /\ UNCHANGED <<dbFlag, mpc, run, pdlFile, havePendDwnld, pendColls, lci, lgi,
                   collIndex, availDiskSpaceMB, dwnloadLimit, dirs, dirOps,
                   granuleQueue, logged, catalog, request, dataSetQueries,
                   maxDataFiles>>
    /\ UNCHANGED NotW
    /\ UNCHANGED hvars

\* getReqData 497 and getGranules 983: the collection is appended, and a
\* granule without bounding rectangle or polygon ends the run.
DatasetQueryFatal ==
    /\ mpc = "query" /\ qi < Len(dataSetQueries)
    /\ ReplayReturned
    /\ \E collID \in CollIds :
          collContainer' = Append(collContainer, ECHOcollection(collID))
    /\ \E hits \in 1..maxDataFiles : hitsReceived' = Append(hitsReceived, hits)
    /\ mpc' = "exit"
    /\ UNCHANGED <<dbFlag, run, qi, numCollections, pdlFile, havePendDwnld,
                   pendColls, lci, lgi, collIndex, availDiskSpaceMB, dwnloadLimit,
                   dirs, dirOps, granuleQueue, logged, catalog, request, dataSetQueries,
                   maxDataFiles>>
    /\ UNCHANGED NotW
    /\ UNCHANGED hvars

\* __main__ 2146-2149: pending downloads are loaded only with DB tracking on
\* and a pending-download file opened.
QueriesDone ==
    /\ mpc = "query" /\ qi = Len(dataSetQueries)
    /\ ReplayReturned
    /\ mpc' = IF dbFlag /\ havePendDwnld THEN "load" ELSE "dlinit"
    /\ UNCHANGED <<dbFlag, run, qi, collContainer, numCollections, pdlFile,
                   havePendDwnld, pendColls, lci, lgi, collIndex,
                   availDiskSpaceMB, dwnloadLimit, dirs, dirOps, granuleQueue,
                   logged, catalog, request, dataSetQueries, maxDataFiles, hitsReceived>>
    /\ UNCHANGED NotW
    /\ UNCHANGED hvars

\* loadPendDwnld 523-533: the file is parsed; ParseError ends the run.
LoadParse ==
    /\ mpc = "load"
    /\ IF Len(pdlFile.docs) = 1
       THEN /\ pendColls' = pdlFile.docs[1]
            /\ lci' = 1 /\ lgi' = 0
            /\ mpc' = "merge"
       ELSE /\ mpc' = "exit"
            /\ UNCHANGED <<pendColls, lci, lgi>>
    /\ UNCHANGED <<dbFlag, run, qi, collContainer, numCollections, pdlFile,
                   havePendDwnld, collIndex, availDiskSpaceMB, dwnloadLimit, dirs,
                   dirOps, granuleQueue, logged, catalog, request, dataSetQueries,
                   maxDataFiles, hitsReceived>>
    /\ UNCHANGED NotW
    /\ UNCHANGED hvars

\* loadPendDwnld 534-554: the next <collection> is located in the container,
\* or appended to it.
MergeCollection ==
    /\ mpc = "merge" /\ lci <= Len(pendColls) /\ lgi = 0
    /\ LET collID == pendColls[lci].collID
           found  == InCollections(collContainer, collID)
       IN  IF found = -1
           THEN /\ collContainer' = Append(collContainer, ECHOcollection(collID))
                /\ numCollections' = numCollections + 1
                /\ collIndex' = numCollections + 1
           ELSE /\ collIndex' = found
                /\ UNCHANGED <<collContainer, numCollections>>
    /\ IF Len(pendColls[lci].granules) = 0
       THEN lci' = lci + 1 /\ lgi' = 0
       ELSE lci' = lci /\ lgi' = 1
    /\ UNCHANGED <<dbFlag, mpc, run, qi, pdlFile, havePendDwnld, pendColls,
                   availDiskSpaceMB, dwnloadLimit, dirs, dirOps, granuleQueue,
                   logged, catalog, request, dataSetQueries, maxDataFiles, hitsReceived>>
    /\ UNCHANGED NotW
    /\ UNCHANGED hvars

\* loadPendDwnld 556-601: the next <granule> of the current <collection>.
MergeGranuleStep ==
    /\ mpc = "merge" /\ lci <= Len(pendColls) /\ lgi >= 1
    /\ LET collID == pendColls[lci].collID
           g      == pendColls[lci].granules[lgi]
       IN  IF MergeCrashes(collContainer, collIndex, collID, g)
           THEN /\ mpc' = "crash"
                /\ UNCHANGED <<collContainer, lci, lgi>>
           ELSE /\ collContainer' = MergeGranule(collContainer, collIndex, collID, g)
                /\ IF lgi = Len(pendColls[lci].granules)
                   THEN lci' = lci + 1 /\ lgi' = 0
                   ELSE lci' = lci /\ lgi' = lgi + 1
                /\ mpc' = mpc
    /\ UNCHANGED <<dbFlag, run, qi, numCollections, pdlFile, havePendDwnld,
                   pendColls, collIndex, availDiskSpaceMB, dwnloadLimit, dirs,
                   dirOps, granuleQueue, logged, catalog, request, dataSetQueries,
                   maxDataFiles, hitsReceived>>
    /\ UNCHANGED NotW
    /\ UNCHANGED hvars

\* loadPendDwnld 533-601: the loop over the <collection> elements has run
\* to its end.
LoadReturnedEarly(colls, i) == i > 1
LoadReturned(colls, i) == i > Len(colls)

\* loadPendDwnld returns.
LoadDone ==
    /\ mpc = "merge" /\ LoadReturned(pendColls, lci)
    /\ mpc' = "zap"
    /\ UNCHANGED <<dbFlag, run, qi, collContainer, numCollections, pdlFile,
                   havePendDwnld, pendColls, lci, lgi, collIndex,
                   availDiskSpaceMB, dwnloadLimit, dirs, dirOps, granuleQueue,
                   logged, catalog, request, dataSetQueries, maxDataFiles, hitsReceived>>
    /\ UNCHANGED NotW
    /\ UNCHANGED hvars

\* zapPending 628-638: os.remove(self.pdlfile); OSError ends the run.
ZapPending ==
    /\ mpc = "zap"
    /\ \E removeOk \in BOOLEAN :
          IF removeOk THEN pdlFile' = Absent /\ mpc' = "dlinit"
          ELSE pdlFile' = pdlFile /\ mpc' = "exit"
    /\ UNCHANGED <<dbFlag, run, qi, collContainer, numCollections, havePendDwnld,
                   pendColls, lci, lgi, collIndex, availDiskSpaceMB, dwnloadLimit,
                   dirs, dirOps, granuleQueue, logged, catalog, request, dataSetQueries,
                   maxDataFiles, hitsReceived>>
    /\ UNCHANGED NotW
    /\ UNCHANGED hvars

\* ECHOdownloader.__init__ 1262: self.granuleQueue = [].
NewGranuleQueueAll(cc) ==
    LET egids == AscSeq(EgidsOf(cc)) IN
    [i \in DOMAIN egids |-> <<egids[i], egids[i]>>]
NewGranuleQueue(cc) == <<>>

\* ECHOdownloader.__init__ 1261-1267: the queue and the status dictionary
\* are created empty; the run ends unless downloadOk.
DownloaderInit ==
    /\ mpc = "dlinit"
    /\ granuleQueue' = NewGranuleQueue(collContainer)
    /\ granuleStatus' = EmptyDict
    /\ mpc' = IF DownloadOk(collContainer, availDiskSpaceMB, dwnloadLimit)
              THEN "plan" ELSE "exit"
    /\ UNCHANGED <<dbFlag, run, qi, collContainer, numCollections, pdlFile,
                   havePendDwnld, pendColls, lci, lgi, collIndex,
                   availDiskSpaceMB, dwnloadLimit, dirs, dirOps, logged, catalog, request, dataSetQueries,
                   maxDataFiles, hitsReceived>>
    /\ UNCHANGED <<tpc, queue, num_urls, num_processed, freelist, inflight, cegid,
                   curlMsgs, files, started, completed>>
    /\ UNCHANGED <<rvars, uvars, svars>>
    /\ UNCHANGED hvars

\* downloadGranules 1370-1440: the planning loop, and the entry of
\* multidownload when the queue is not empty.  noMk are the paths whose
\* os.makedirs / os.chmod fails, inDB the granules the database reports.
PlanDownload ==
    /\ mpc = "plan"
    /\ \E noMk \in SUBSET PathsOf(collContainer) :
       \E inDB \in SUBSET (IF dbFlag THEN EgidsOf(collContainer) ELSE {}) :
          LET acc == PlanCollections([cc |-> collContainer, queue |-> granuleQueue,
                                      gs |-> granuleStatus, dirs |-> dirs,
                                      ops |-> dirOps],
                                     1, noMk, inDB, dbFlag)
          IN  /\ collContainer' = acc.cc
              /\ granuleQueue' = acc.queue
              /\ granuleStatus' = acc.gs
              /\ dirs' = acc.dirs
              /\ dirOps' = acc.ops
              /\ queue' = acc.queue
              /\ num_urls' = Len(acc.queue)
              /\ tpc' = IF Len(acc.queue) > 0 THEN "loop" ELSE "skipped"
              /\ failed' = failed \cup {e \in DOMAIN acc.gs : acc.gs[e] = -2}
    /\ num_processed' = 0
    /\ freelist' = Iota(concurrent_conns)
    /\ inflight' = {}
    /\ cegid' = [h \in Handles |-> 0]
    /\ curlMsgs' = <<>>
    /\ started' = <<>>
    /\ completed' = <<>>
    /\ mpc' = "download"
    /\ UNCHANGED <<dbFlag, run, qi, numCollections, pdlFile, havePendDwnld,
                   pendColls, lci, lgi, collIndex, availDiskSpaceMB, dwnloadLimit,
                   logged, catalog, request, dataSetQueries, maxDataFiles, hitsReceived,
                   files>>
    /\ UNCHANGED <<rvars, uvars, svars>>
    /\ UNCHANGED <<store, fetched, storeC, storeP, misread>>

\* downloadGranules 1455-1460: the statuses are written back to the
\* granules; a granule without an entry raises KeyError.
Reconcile ==
    /\ mpc = "download" /\ tpc \in {"done", "skipped"}
    /\ IF AllResolved(collContainer, granuleStatus)
       THEN /\ collContainer' = Reconciled(collContainer, granuleStatus)
            /\ mpc' = "cleanup"
       ELSE /\ mpc' = "crash"
            /\ UNCHANGED collContainer
    /\ UNCHANGED <<dbFlag, run, qi, numCollections, pdlFile, havePendDwnld,
                   pendColls, lci, lgi, collIndex, availDiskSpaceMB, dwnloadLimit,
                   dirs, dirOps, granuleQueue, logged, catalog, request, dataSetQueries,
                   maxDataFiles, hitsReceived>>
    /\ UNCHANGED NotW
    /\ UNCHANGED hvars

\* __main__ 2160-2168: savePending, update and savePendTx follow cleanup only
\* if getDBflag() is "True".
AfterCleanupAlways(useDB) == "save"
AfterCleanup(useDB) == IF useDB THEN "save" ELSE "end"

\* cleanup 1572-1582: the files of the failed transfers are removed, as far
\* as os.remove succeeds.  __main__ 2165: savePending follows with DB
\* tracking on.
Cleanup ==
    /\ mpc = "cleanup"
    /\ \E removed \in SUBSET FailedFiles(collContainer, files) :
          files' = files \ removed
    /\ mpc' = AfterCleanup(dbFlag)
    /\ UNCHANGED <<dbFlag, run, qi, collContainer, numCollections, pdlFile,
                   havePendDwnld, pendColls, lci, lgi, collIndex,
                   availDiskSpaceMB, dwnloadLimit, dirs, dirOps, granuleQueue,
                   logged, catalog, request, dataSetQueries, maxDataFiles, hitsReceived>>
    /\ UNCHANGED <<tpc, queue, num_urls, num_processed, freelist, inflight, cegid,
                   curlMsgs, granuleStatus, started, completed>>
    /\ UNCHANGED <<rvars, uvars, svars>>
    /\ UNCHANGED hvars

\* savePending 724-747: pendingFileOk is False after a failed open and after
\* a failed write, and the document then goes to the log.
LogFallbackOpenOnly(log, outcome, doc) ==
    IF outcome = "openFailed" THEN Append(log, doc) ELSE log
LogFallback(log, outcome, doc) ==
    IF outcome = "written" THEN log ELSE Append(log, doc)

\* savePending 645-741: with a failed collection, the record is written to
\* the file opened 'w'; if the open or the write fails it goes to the log.
SavePending ==
    /\ mpc = "save"
    /\ IF \E ci \in DOMAIN collContainer : collContainer[ci].haveFailedDwnlds
       THEN \E outcome \in {"written", "openFailed", "writeFailed"} :
               /\ pdlFile' = CASE outcome = "written" ->
                                     File(<<PendingDoc(collContainer)>>)
                               [] outcome = "openFailed" -> pdlFile
                               [] outcome = "writeFailed" -> File(<<>>)
               /\ logged' = LogFallback(logged, outcome, PendingDoc(collContainer))
       ELSE UNCHANGED <<pdlFile, logged>>
    /\ mpc' = "update"
    /\ UNCHANGED <<dbFlag, run, qi, collContainer, numCollections, havePendDwnld,
                   pendColls, lci, lgi, collIndex, availDiskSpaceMB, dwnloadLimit,
                   dirs, dirOps, granuleQueue, catalog, request, dataSetQueries,
                   maxDataFiles, hitsReceived>>
    /\ UNCHANGED NotW
    /\ UNCHANGED hvars

\* The program is invoked again.  The pending-download file, the storage
\* tree and the catalog are what the last invocation left; update and
\* savePendTx, which end an invocation with DB tracking on, touch none of
\* them.
NextRun ==
    /\ mpc \in {"exit", "crash", "end", "update"}
    /\ run < MaxRuns
    /\ run' = run + 1
    /\ mpc' = "start"
    /\ qi' = 0
    /\ collContainer' = <<>>
    /\ numCollections' = 0
    /\ havePendDwnld' = FALSE
    /\ pendColls' = <<>>
    /\ lci' = 1 /\ lgi' = 1
    /\ collIndex' = 0
    /\ dirOps' = <<>>
    /\ granuleQueue' = <<>>
    /\ logged' = <<>>
    /\ tpc' = "idle"
    /\ queue' = <<>>
    /\ num_urls' = 0
    /\ num_processed' = 0
    /\ freelist' = <<>>
    /\ inflight' = {}
    /\ cegid' = [h \in Handles |-> 0]
    /\ curlMsgs' = <<>>
    /\ granuleStatus' = EmptyDict
    /\ started' = <<>>
    /\ completed' = <<>>
    /\ hitsReceived' = <<>>
    /\ UNCHANGED <<dbFlag, pdlFile, availDiskSpaceMB, dwnloadLimit, dirs, catalog,
                   request, dataSetQueries, maxDataFiles, files>>
    /\ UNCHANGED <<rvars, uvars, svars>>
    /\ UNCHANGED hvars

\* The program is invoked again on a disk other programs write to as well.
\* setDiskSpaceAvail 395-411 reads the free space of the storage root with
\* os.statvfs in every invocation: 1 MB is too little for any download.
DiskReadings == {1, BigDisk}
NextRunOnDisk ==
    /\ mpc \in {"exit", "crash", "end", "update"}
    /\ run < MaxRuns
    /\ run' = run + 1
    /\ mpc' = "start"
    /\ availDiskSpaceMB' \in DiskReadings
    /\ qi' = 0
    /\ collContainer' = <<>>
    /\ numCollections' = 0
    /\ havePendDwnld' = FALSE
    /\ pendColls' = <<>>
    /\ lci' = 1 /\ lgi' = 1
    /\ collIndex' = 0
    /\ dirOps' = <<>>
    /\ granuleQueue' = <<>>
    /\ logged' = <<>>
    /\ tpc' = "idle"
    /\ queue' = <<>>
    /\ num_urls' = 0
    /\ num_processed' = 0
    /\ freelist' = <<>>
    /\ inflight' = {}
    /\ cegid' = [h \in Handles |-> 0]
    /\ curlMsgs' = <<>>
    /\ granuleStatus' = EmptyDict
    /\ started' = <<>>
    /\ completed' = <<>>
    /\ hitsReceived' = <<>>
    /\ UNCHANGED <<dbFlag, pdlFile, dwnloadLimit, dirs, catalog,
                   request, dataSetQueries, maxDataFiles, files>>
    /\ UNCHANGED <<rvars, uvars, svars>>
    /\ UNCHANGED hvars

WNext ==
    \/ RequestInit
    \/ DatasetQueryIgnored
    \/ DatasetQueryOne
    \/ DatasetQueryFatal
    \/ QueriesDone
    \/ LoadParse
    \/ MergeCollection
    \/ MergeGranuleStep
    \/ LoadDone
    \/ ZapPending
    \/ DownloaderInit
    \/ PlanDownload
    \/ LoopTest
    \/ Fill
    \/ Perform
    \/ InfoRead
    \/ Reconcile
    \/ Cleanup
    \/ SavePending
    \/ NextRun

(***************************************************************************)
(* ECHOdbHandler.update: the collections, granules and polypoints of the   *)
(* working set are inserted in the local database.                         *)
(***************************************************************************)
\* update 1750-1755: every granule and polypoint of the collection is
\* flagged with the collection.
CascadeCollection(cc, ci) ==
    [cc EXCEPT ![ci].dbInsertFailed = TRUE,
               ![ci].granContainer =
                   [gi \in DOMAIN @ |->
                       [@[gi] EXCEPT !.dbInsertFailed = TRUE,
                                     !.polyPoints = [pi \in DOMAIN @ |-> TRUE]]]]

\* update 1769-1772: every polypoint of the granule is flagged with it.
CascadeGranuleOnly(cc, ci, gi) ==
    [cc EXCEPT ![ci].granContainer[gi].dbInsertFailed = TRUE]
CascadeGranule(cc, ci, gi) ==
    [cc EXCEPT ![ci].granContainer[gi].dbInsertFailed = TRUE,
               ![ci].granContainer[gi].polyPoints = [pi \in DOMAIN @ |-> TRUE]]

\* update 1738-1751: processGranules after the collection insert.
ProcessGranulesAlways(inserted) == TRUE
ProcessGranules(inserted) == inserted

\* update 1761-1772: processPolyPoints after the granule insert.
ProcessPolyPointsAlways(inserted) == TRUE
ProcessPolyPoints(inserted) == inserted

Insert(kind, ci, gi, pi, ok) == [kind |-> kind, c |-> ci, g |-> gi, p |-> pi, ok |-> ok]

NotU == <<dbFlag, mpc, run, qi, numCollections, pdlFile, havePendDwnld,
          pendColls, lci, lgi, collIndex, availDiskSpaceMB, dwnloadLimit, dirs,
          dirOps, granuleQueue, logged, catalog, request, dataSetQueries,
          maxDataFiles, hitsReceived, rvars, tvars, svars>>

\* __main__ 2167: edbhand.update(echoReqObj).
UpdateBegin ==
    /\ mpc = "update" /\ upc = "idle"
    /\ upc' = "coll"
    /\ uci' = 1
    /\ UNCHANGED <<ugi, upi, dbInserts, collContainer>>
    /\ UNCHANGED NotU
    /\ UNCHANGED hvars

\* update 1736-1755: the next collection.  With granules, it is looked up in
\* the collections table and inserted if the query returns nothing.
UpdateCollection ==
    /\ upc = "coll" /\ uci <= Len(collContainer)
    /\ IF Len(collContainer[uci].granContainer) = 0
       THEN /\ uci' = uci + 1
            /\ UNCHANGED <<upc, ugi, dbInserts, collContainer, storeC, misread>>
       ELSE \E qResults \in BOOLEAN :
               /\ misread' = (misread \/ qResults # (collContainer[uci].collID \in storeC))
               /\ IF qResults
                  THEN /\ upc' = "gran" /\ ugi' = 1
                       /\ UNCHANGED <<uci, dbInserts, collContainer, storeC>>
                  ELSE \E ok \in BOOLEAN :
                       /\ dbInserts' = Append(dbInserts, Insert("C", uci, 0, 0, ok))
                       /\ storeC' = IF ok THEN storeC \cup {collContainer[uci].collID}
                                     ELSE storeC
                       /\ collContainer' = IF ok THEN collContainer
                                           ELSE CascadeCollection(collContainer, uci)
                       /\ IF ProcessGranules(ok)
                          THEN upc' = "gran" /\ ugi' = 1 /\ uci' = uci
                          ELSE upc' = upc /\ ugi' = ugi /\ uci' = uci + 1
    /\ UNCHANGED upi
    /\ UNCHANGED NotU
    /\ UNCHANGED <<store, fetched, failed, storeP>>

\* update 1757-1772: the next granule of the collection; a granule whose
\* download succeeded is inserted.
UpdateGranule ==
    /\ upc = "gran"
    /\ IF ugi > Len(collContainer[uci].granContainer)
       THEN /\ upc' = "coll" /\ uci' = uci + 1
            /\ UNCHANGED <<ugi, upi, dbInserts, collContainer, store>>
       ELSE LET g == collContainer[uci].granContainer[ugi] IN
            IF g.downloadStatus # 1
            THEN /\ ugi' = ugi + 1
                 /\ UNCHANGED <<upc, uci, upi, dbInserts, collContainer, store>>
            ELSE \E ok \in BOOLEAN :
                    /\ dbInserts' = Append(dbInserts, Insert("G", uci, ugi, 0, ok))
                    /\ store' = IF ok THEN store \cup {g.egid} ELSE store
                    /\ collContainer' = IF ok THEN collContainer
                                        ELSE CascadeGranule(collContainer, uci, ugi)
                    /\ IF ProcessPolyPoints(ok) /\ Len(g.polyPoints) > 0
                       THEN upc' = "pp" /\ upi' = 1 /\ ugi' = ugi
                       ELSE upc' = upc /\ upi' = upi /\ ugi' = ugi + 1
                    /\ uci' = uci
    /\ UNCHANGED NotU
    /\ UNCHANGED <<fetched, failed, storeC, storeP, misread>>

\* update 1774-1780: the next polypoint of the granule is inserted.
UpdatePolyPoint ==
    /\ upc = "pp"
    /\ \E ok \in BOOLEAN :
          /\ dbInserts' = Append(dbInserts, Insert("P", uci, ugi, upi, ok))
          /\ storeP' = IF ok THEN storeP \cup {PolyRow(collContainer[uci].granContainer[ugi].egid, upi)}
                        ELSE storeP
          /\ collContainer' =
                IF ok THEN collContainer
                ELSE [collContainer EXCEPT
                         ![uci].granContainer[ugi].polyPoints[upi] = TRUE]
    /\ IF upi = Len(collContainer[uci].granContainer[ugi].polyPoints)
       THEN upc' = "gran" /\ ugi' = ugi + 1 /\ upi' = upi
       ELSE upc' = upc /\ ugi' = ugi /\ upi' = upi + 1
    /\ uci' = uci
    /\ UNCHANGED NotU
    /\ UNCHANGED <<store, fetched, failed, storeC, misread>>

\* update returns; __main__ 2168: savePendTx follows.
UpdateDone ==
    /\ upc = "coll" /\ uci > Len(collContainer)
    /\ upc' = "done"
    /\ mpc' = "savetx"
    /\ UNCHANGED <<uci, ugi, upi, dbInserts, collContainer>>
    /\ UNCHANGED <<dbFlag, run, qi, numCollections, pdlFile, havePendDwnld,
                   pendColls, lci, lgi, collIndex, availDiskSpaceMB, dwnloadLimit,
                   dirs, dirOps, granuleQueue, logged, catalog, request, dataSetQueries,
                   maxDataFiles, hitsReceived,
                   rvars, tvars, svars>>
    /\ UNCHANGED hvars

(***************************************************************************)
(* ECHOptxHandler.savePendTx: the entities whose insert failed are written *)
(* to the queue of their kind.  An entry is a number that identifies the   *)
(* entity: the collection id, the collection and granule ids, the granule  *)
(* id and the position of the polypoint.  The entry of a granule also      *)
(* tells (+100) that its localFileName is still the "" of getGranules.     *)
(***************************************************************************)
CEntry(c) == c.collID
GEntry(c, g) == 10 * c.collID + g.egid + (IF g.localFileName = 0 THEN 100 ELSE 0)
PEntry(g, pi) == 10 * g.egid + pi

RECURSIVE Concat(_)
Concat(ss) == IF Len(ss) = 0 THEN <<>> ELSE Head(ss) \o Concat(Tail(ss))

\* savePendTx 1986-1996: the children of cxmlroot, gxmlroot and pxmlroot.
CTx(cc) ==
    Concat([ci \in DOMAIN cc |->
               IF cc[ci].dbInsertFailed THEN <<CEntry(cc[ci])>> ELSE <<>>])
GTxAll(cc) ==
    Concat([ci \in DOMAIN cc |->
               [gi \in DOMAIN cc[ci].granContainer |->
                   GEntry(cc[ci], cc[ci].granContainer[gi])]])
GTx(cc) ==
    Concat([ci \in DOMAIN cc |->
               Concat([gi \in DOMAIN cc[ci].granContainer |->
                          IF cc[ci].granContainer[gi].dbInsertFailed
                          THEN <<GEntry(cc[ci], cc[ci].granContainer[gi])>>
                          ELSE <<>>])])
PTx(cc) ==
    Concat([ci \in DOMAIN cc |->
               Concat([gi \in DOMAIN cc[ci].granContainer |->
                          LET g == cc[ci].granContainer[gi] IN
                          Concat([pi \in DOMAIN g.polyPoints |->
                                     IF g.polyPoints[pi] THEN <<PEntry(g, pi)>>
                                     ELSE <<>>])])])
PendTx(cc) == [k \in Kinds |-> CASE k = "C" -> CTx(cc) [] k = "G" -> GTx(cc)
                                 [] OTHER -> PTx(cc)]

\* writePendingTx 2007-2023: the document is written to the file opened in
\* append mode; a failed write leaves the file without a whole document.
AppendedFile(f, doc) == File(f.docs \o <<doc>>)
TruncatedFile(f) == File(f.docs)

\* savePendTx 1976-2005: the kinds with entries are written in the order
\* C, G, P; a failed open or write (of the kind of rank failAt) raises
\* SystemExit, the kinds before it having been written.
SavePendTx ==
    /\ mpc = "savetx"
    /\ LET tx == PendTx(collContainer) IN
       \E failAt \in 0..Cardinality(Kinds) : \E how \in {"open", "write"} :
          /\ failAt > 0 => \E k \in Kinds : Rank(k) = failAt /\ tx[k] # <<>>
          /\ failAt = 0 => how = "open"
          /\ ptxFile' =
                [k \in Kinds |->
                    LET r == Rank(k) IN
                    IF tx[k] = <<>> \/ (failAt > 0 /\ r > failAt) THEN ptxFile[k]
                    ELSE IF r = failAt
                         THEN (IF how = "open" THEN ptxFile[k]
                               ELSE TruncatedFile(ptxFile[k]))
                    ELSE AppendedFile(ptxFile[k], tx[k])]
          /\ mpc' = IF failAt = 0 THEN "end" ELSE "txexit"
    /\ UNCHANGED <<ptxFile0, process, rpc, rkind, txs, txi, pendRoot, inserts, rewrite>>
    /\ UNCHANGED <<dbFlag, run, qi, collContainer, numCollections, pdlFile,
                   havePendDwnld, pendColls, lci, lgi, collIndex, availDiskSpaceMB,
                   dwnloadLimit, dirs, dirOps, granuleQueue, logged, catalog, request,
                   dataSetQueries, maxDataFiles, hitsReceived>>
    /\ UNCHANGED <<tvars, uvars, svars, hvars>>

\* The program is invoked again after an invocation that ended, by the end
\* of __main__ or by SystemExit or an exception anywhere in it.  The files,
\* the storage tree, the catalog and the store are what that invocation
\* left; ECHOrequest.__init__ 121-143 opens the pending-download file and
\* loads the request, and the replay block is next.
NextInvocation ==
    /\ mpc \in {"exit", "crash", "end", "txexit"} \/ rpc = "exit"
    /\ run < MaxRuns
    /\ run' = run + 1
    /\ \E openOk \in BOOLEAN : havePendDwnld' = (pdlFile.exists /\ openOk)
    /\ \E res \in LoadDataSetQueries(request) :
          /\ dataSetQueries' = res.queries
          /\ mpc' = CASE res.status = "ok" -> "query"
                      [] res.status = "invalid" -> "exit"
                      [] OTHER -> "crash"
    /\ qi' = 0 /\ collContainer' = <<>> /\ numCollections' = 0
    /\ pendColls' = <<>> /\ lci' = 1 /\ lgi' = 1 /\ collIndex' = 0
    /\ dirOps' = <<>> /\ granuleQueue' = <<>> /\ logged' = <<>>
    /\ hitsReceived' = <<>>
    /\ tpc' = "idle" /\ queue' = <<>> /\ num_urls' = 0 /\ num_processed' = 0
    /\ freelist' = <<>> /\ inflight' = {} /\ cegid' = [h \in Handles |-> 0]
    /\ curlMsgs' = <<>> /\ granuleStatus' = EmptyDict
    /\ started' = <<>> /\ completed' = <<>>
    /\ process' = [k \in Kinds |-> FALSE]
    /\ rpc' = "main" /\ rkind' = 1 /\ txs' = <<>> /\ txi' = 1
    /\ pendRoot' = <<>> /\ inserts' = <<>> /\ rewrite' = "none"
    /\ ptxFile0' = ptxFile
    /\ upc' = "idle" /\ uci' = 1 /\ ugi' = 1 /\ upi' = 1 /\ dbInserts' = <<>>
    /\ UNCHANGED <<ptxFile, dbFlag, pdlFile, availDiskSpaceMB, dwnloadLimit, dirs,
                   catalog, request, maxDataFiles, files>>
    /\ UNCHANGED <<svars, hvars>>

UNext ==
    \/ UpdateBegin
    \/ UpdateCollection
    \/ UpdateGranule
    \/ UpdatePolyPoint
    \/ UpdateDone

\* The invocation from the construction of the downloader to the end of
\* update.
DUNext ==
    \/ DownloaderInit
    \/ PlanDownload
    \/ LoopTest
    \/ Fill
    \/ Perform
    \/ InfoRead
    \/ Reconcile
    \/ Cleanup
    \/ SavePending
    \/ UpdateBegin
    \/ UpdateCollection
    \/ UpdateGranule
    \/ UpdatePolyPoint
    \/ UpdateDone

\* The invocation from the construction of the downloader to cleanup.
DNext ==
    \/ DownloaderInit
    \/ PlanDownload
    \/ LoopTest
    \/ Fill
    \/ Perform
    \/ InfoRead
    \/ Reconcile
    \/ Cleanup

(***************************************************************************)
(* Claims on the merge of the pending-download record (SpecMerge).         *)
(***************************************************************************)
\* A step of loadPendDwnld that merges a <granule> and goes on.
MergesGranule ==
    /\ mpc = "merge" /\ lci <= Len(pendColls) /\ lgi >= 1
    /\ mpc' = "merge"

\* The places of the working set that hold the granule being merged.
PlacesOf(cc, cid, gid) ==
    {<<ci, gi>> \in (DOMAIN cc) \X (1..(MaxQueries * MaxGran + MaxGran)) :
        /\ gi \in DOMAIN cc[ci].granContainer
        /\ cc[ci].collID = cid
        /\ cc[ci].granContainer[gi].egid = gid}

\* The number of granules of every collection.
Sizes(cc) == [ci \in DOMAIN cc |-> Len(cc[ci].granContainer)]

\* C5: merging a pending-download granule that is already in the working
\* set adds exactly 1 to that granule's try count and leaves the number of
\* granules of the collection unchanged; merging a granule that is new
\* appends exactly one granule to the matching collection.
C5_AsStated ==
    [][MergesGranule =>
         LET cid == pendColls[lci].collID
             gid == pendColls[lci].granules[lgi].granID
             at  == PlacesOf(collContainer, cid, gid)
         IN  IF at # {}
             THEN /\ Sizes(collContainer') = Sizes(collContainer)
                  /\ \E p \in at :
                        collContainer'[p[1]].granContainer[p[2]].numDloadTrys =
                        collContainer[p[1]].granContainer[p[2]].numDloadTrys + 1
             ELSE Sizes(collContainer') =
                  [Sizes(collContainer) EXCEPT ![collIndex] = @ + 1]]_vars

\* C6: a granule saved in the pending-download record with try count t and
\* not in the working set when the next invocation merges the record is then
\* in the working set with try count t + 1.
C6_AsStated ==
    [][MergesGranule =>
         LET cid == pendColls[lci].collID
             g   == pendColls[lci].granules[lgi]
         IN  PlacesOf(collContainer, cid, g.granID) = {} =>
                \E p \in PlacesOf(collContainer', cid, g.granID) :
                   collContainer'[p[1]].granContainer[p[2]].numDloadTrys =
                   g.dwnldtrys + 1]_vars

\* C7: no two collections of the working set have the same id.
C7_AsStated ==
    \A i, j \in DOMAIN collContainer :
        collContainer[i].collID = collContainer[j].collID => i = j

\* C29: no two places of the working set hold the same (collection id,
\* granule id) pair; in particular no collection holds a granule id twice.
C29_AsStated ==
    \A ci, cj \in DOMAIN collContainer :
        \A gi \in DOMAIN collContainer[ci].granContainer :
            \A gj \in DOMAIN collContainer[cj].granContainer :
                (/\ collContainer[ci].collID = collContainer[cj].collID
                 /\ collContainer[ci].granContainer[gi].egid =
                    collContainer[cj].granContainer[gj].egid)
                    => (ci = cj /\ gi = gj)

(***************************************************************************)
(* Claims on the database update (SpecUpdate).                             *)
(***************************************************************************)
\* The collection inserts of update that failed.
FailedCollInserts ==
    {k \in DOMAIN dbInserts : dbInserts[k].kind = "C" /\ ~dbInserts[k].ok}

\* C8: when the insert of a collection fails in update, the collection,
\* every granule it owns and every polypoint of those granules are flagged
\* as failed inserts, and update attempts no granule or polypoint insert for
\* a child of that collection.
C8_CollectionCascade ==
    \A k \in FailedCollInserts :
        LET c == collContainer[dbInserts[k].c] IN
        /\ c.dbInsertFailed
        /\ \A gi \in DOMAIN c.granContainer :
              /\ c.granContainer[gi].dbInsertFailed
              /\ \A pi \in DOMAIN c.granContainer[gi].polyPoints :
                    c.granContainer[gi].polyPoints[pi]
        /\ \A j \in DOMAIN dbInserts :
              dbInserts[j].kind \in {"G", "P"} => dbInserts[j].c # dbInserts[k].c

\* update has returned, the insert of a collection failed, the collection
\* owns a downloaded granule with polygon points, and a granule of another
\* collection was inserted.
C8_Witness ==
    /\ upc = "done"
    /\ \E k \in FailedCollInserts :
          /\ \E gi \in DOMAIN collContainer[dbInserts[k].c].granContainer :
                LET g == collContainer[dbInserts[k].c].granContainer[gi] IN
                g.downloadStatus = 1 /\ Len(g.polyPoints) > 0
          /\ \E j \in DOMAIN dbInserts :
                dbInserts[j].kind = "G" /\ dbInserts[j].c # dbInserts[k].c

(***************************************************************************)
(* Claims on the feasibility gate of the downloader (SpecDownload).        *)
(***************************************************************************)
\* The sum of the sizes of all granules of all collections, in MB.
RequestedMB ==
    LET Size(c) == SumSizes(c.granContainer) IN
    IF collContainer = <<>> THEN 0
    ELSE LET RECURSIVE Upto(_)
             Upto(n) == IF n = 0 THEN 0 ELSE Upto(n - 1) + Size(collContainer[n])
         IN  Upto(Len(collContainer))

\* C9: the downloader is constructed only if the requested size exceeds
\* neither the available disk space nor the download limit, and it is always
\* constructed when the requested size is at most 0.
C9_Feasibility ==
    mpc \in {"plan", "exit"} =>
        /\ (RequestedMB > availDiskSpaceMB \/ RequestedMB > dwnloadLimit) => mpc = "exit"
        /\ RequestedMB <= 0 => mpc = "plan"

\* The run was rejected for the download limit alone.
C9_Witness ==
    /\ mpc = "exit"
    /\ RequestedMB > dwnloadLimit
    /\ RequestedMB < availDiskSpaceMB

\* C34: the downloader is constructed exactly when the requested size is
\* at most 0, or is less than the available disk space and not greater than
\* the download limit: a request of exactly the available space is
\* rejected, one of exactly the limit is accepted.
C34_Boundary ==
    mpc \in {"plan", "exit"} =>
        (mpc = "plan" <=>
            \/ RequestedMB <= 0
            \/ RequestedMB < availDiskSpaceMB /\ RequestedMB <= dwnloadLimit)

\* C34 witness: a request of exactly the available disk space, within the
\* download limit, was rejected.
C34_Witness ==
    /\ mpc = "exit"
    /\ RequestedMB > 0
    /\ RequestedMB = availDiskSpaceMB
    /\ RequestedMB <= dwnloadLimit

\* C10: a run rejected by downloadOk has ended with no storage directory
\* created or made writable, no granule in the download queue and no
\* transfer started.
C10_AtomicRejection ==
    mpc = "exit" =>
        /\ dirOps = <<>>
        /\ \A p \in DOMAIN dirs : dirs[p] # "rw"
        /\ granuleQueue = <<>> /\ queue = <<>>
        /\ tpc = "idle" /\ started = <<>> /\ inflight = {}
        /\ files = {}
        /\ ~ENABLED DNext

\* A run with several granules to download was rejected.
C10_Witness ==
    /\ mpc = "exit"
    /\ Cardinality(EgidsOf(collContainer)) > 1

(***************************************************************************)
(* Claims on the removal of partial downloads (SpecCleanup).               *)
(***************************************************************************)
\* The local files of the granules of the working set with a given status.
FilesWithStatus(st) ==
    {collContainer[ci].granContainer[gi].localFileName :
        <<ci, gi>> \in {p \in (DOMAIN collContainer) \X (1..(MaxQueries * MaxGran)) :
                           /\ p[2] \in DOMAIN collContainer[p[1]].granContainer
                           /\ collContainer[p[1]].granContainer[p[2]].downloadStatus = st}}

\* C11: cleanup deletes only local files of granules whose transfer failed,
\* and deletes no file that is the local file of a granule whose transfer
\* succeeded, also when a failed and a successful granule have the same
\* local path.
C11_AsStated ==
    [][mpc = "cleanup" =>
          /\ files' \subseteq files
          /\ (files \ files') \subseteq FilesWithStatus(-1)
          /\ (files \cap FilesWithStatus(1)) \subseteq files']_vars

\* The granules of the working set, as <<collection index, granule index>>.
GranulePlaces ==
    {p \in (DOMAIN collContainer) \X (1..(MaxQueries * MaxGran + MaxGran)) :
        p[2] \in DOMAIN collContainer[p[1]].granContainer}
StatusAt(p) == collContainer[p[1]].granContainer[p[2]].downloadStatus

\* downloadGranules has returned.
AfterReconcile == mpc \in {"cleanup", "save", "update", "savetx", "end"}

\* C15: once the statuses are reconciled, every granule with a negative
\* download status (transfer failed, collection or granule directory not
\* provisioned) is in a collection flagged as having failed downloads.
C15_FailedFlag ==
    AfterReconcile =>
        \A p \in GranulePlaces : StatusAt(p) < 0 => collContainer[p[1]].haveFailedDwnlds

\* C15 witness: after reconciliation one collection lost its granules to
\* its own directory, and a granule of a collection whose directory was made
\* lost its transfer.
C15_Witness ==
    /\ AfterReconcile
    /\ \E p, q \in GranulePlaces :
          /\ StatusAt(p) = -2 /\ dirs[collContainer[p[1]].collID] # "rw"
          /\ StatusAt(q) = -1 /\ dirs[collContainer[q[1]].collID] = "rw"

\* The i-th least element of a set of numbers.
NthOf(S, i) == CHOOSE x \in S : Cardinality({y \in S : y <= x}) = i

\* The collections flagged as having failed downloads, and the granules of
\* collection ci with a negative status, by index.
FlaggedColls == {ci \in DOMAIN collContainer : collContainer[ci].haveFailedDwnlds}
NegativeGrans(ci) ==
    {gi \in DOMAIN collContainer[ci].granContainer :
        collContainer[ci].granContainer[gi].downloadStatus < 0}

\* doc lists the flagged collections in order, each with its granules of
\* negative status in order, and nothing else.
ExactRecord(doc) ==
    /\ Len(doc) = Cardinality(FlaggedColls)
    /\ \A i \in DOMAIN doc :
          LET ci == NthOf(FlaggedColls, i) IN
          /\ doc[i].collID = collContainer[ci].collID
          /\ Len(doc[i].granules) = Cardinality(NegativeGrans(ci))
          /\ \A j \in DOMAIN doc[i].granules :
                LET g == collContainer[ci].granContainer[NthOf(NegativeGrans(ci), j)] IN
                /\ doc[i].granules[j].granID = g.egid
                /\ doc[i].granules[j].dwnldstat = g.downloadStatus

\* C16: the record savePending writes holds exactly the collections flagged
\* as having failed downloads and, under each, exactly its granules with a
\* negative download status.
C16_ExactRecord ==
    [][(mpc = "save" /\ pdlFile'.exists /\ pdlFile'.docs # <<>> /\ pdlFile' # pdlFile)
          => ExactRecord(pdlFile'.docs[1])]_vars

\* C16 witness: a record was written that leaves out an unflagged collection
\* and, under a flagged one, a granule that was transferred.
C16_Witness ==
    /\ mpc = "update" /\ pdlFile.exists /\ pdlFile.docs # <<>>
    /\ ExactRecord(pdlFile.docs[1])
    /\ \E ci \in DOMAIN collContainer : ci \notin FlaggedColls
    /\ \E ci \in FlaggedColls :
          \E gi \in DOMAIN collContainer[ci].granContainer :
              collContainer[ci].granContainer[gi].downloadStatus = 1

\* The granule at place p of the working set is listed under its collection
\* in a pending-download document held by the file or written to the log.
Captured(p) ==
    \E doc \in Range(pdlFile.docs) \cup Range(logged) :
        \E i \in DOMAIN doc : \E j \in DOMAIN doc[i].granules :
            /\ doc[i].collID = collContainer[p[1]].collID
            /\ doc[i].granules[j].granID = collContainer[p[1]].granContainer[p[2]].egid

\* The invocation is over or at its last steps, past savePending if it runs.
RunEnding == mpc \in {"end", "update", "savetx", "txexit"}

\* The run was ended early, by SystemExit or by an uncaught exception, before
\* the capture steps of __main__ 2165-2168; "txexit" is the SystemExit of
\* writePendingTx, raised on a queue file after savePending and update.
Aborted == mpc \in {"exit", "crash"}

\* A transfer or a directory provisioning has failed in this run.
SomeFailure == \E e \in DOMAIN granuleStatus : granuleStatus[e] < 0

RecordIds(doc) ==
    UNION {{doc[i].granules[j].granID : j \in DOMAIN doc[i].granules} : i \in DOMAIN doc}
PendingAtStart ==
    IF pdlFile.exists THEN UNION {RecordIds(d) : d \in Range(pdlFile.docs)}
    ELSE RecordIds(pendColls)

\* A granule is accounted for: transferred or found in the database in this
\* invocation, or in the record now in the file or in the log.
AccountedFor(e, gs, f, lg) ==
    \/ e \in DOMAIN gs /\ gs[e] \in {0, 1}
    \/ \E d \in Range(f.docs) : e \in RecordIds(d)
    \/ \E d \in Range(lg) : e \in RecordIds(d)

\* C31: a granule in the pending-download record at the start of an
\* invocation is, when the invocation ends for whatever reason, transferred,
\* or in the database, or again in the pending-download record or the log.
C31_AsStated ==
    [][(mpc' # mpc /\ mpc' \in {"exit", "crash", "end", "update"}) =>
          \A e \in PendingAtStart :
              AccountedFor(e, granuleStatus', pdlFile', logged')]_vars

\* Every collection of the pending-download record is in the working set,
\* and every granule of the record is in a collection of its id there.
RecordMerged ==
    \A doc \in Range(pdlFile.docs) : \A i \in DOMAIN doc :
        /\ \E ci \in DOMAIN collContainer : collContainer[ci].collID = doc[i].collID
        /\ \A j \in DOMAIN doc[i].granules :
              \E p \in GranulePlaces :
                  /\ collContainer[p[1]].collID = doc[i].collID
                  /\ collContainer[p[1]].granContainer[p[2]].egid = doc[i].granules[j].granID

\* C19: the pending-download file is deleted only by zapPending, with every
\* collection and granule of its record merged into the working set, and a
\* run that ends while parsing or merging the record leaves the file as it
\* was.
C19_ZapAfterMerge ==
    [][/\ (pdlFile.exists /\ ~pdlFile'.exists) =>
              (mpc = "zap" /\ Len(pdlFile.docs) = 1 /\ RecordMerged)
       /\ (mpc \in {"load", "merge"} /\ mpc' \in {"exit", "crash"}) =>
              (pdlFile.exists /\ pdlFile' = pdlFile)]_vars

\* C19 witness: a record of two collections with a granule each was merged
\* into the working set, and the file has been deleted.
C19_Witness ==
    /\ mpc = "dlinit" /\ ~pdlFile.exists
    /\ Len(pendColls) = 2
    /\ \A i \in DOMAIN pendColls : Len(pendColls[i].granules) >= 1
    /\ qi = MaxQueries /\ Len(collContainer) = 2
    /\ \A i \in DOMAIN pendColls :
          \E p \in GranulePlaces :
              /\ collContainer[p[1]].collID = pendColls[i].collID
              /\ collContainer[p[1]].granContainer[p[2]].egid = pendColls[i].granules[1].granID

\* The granule ids in the download queue and those handed to a transfer.
QueuedEgids == {granuleQueue[i][1] : i \in DOMAIN granuleQueue}
StartedEgids == {started[i][2] : i \in DOMAIN started}

\* The granule id has status st in the status dictionary.
HasStatus(egid, st) == egid \in DOMAIN granuleStatus /\ granuleStatus[egid] = st

\* C35: when the statuses are written back, every granule of the working
\* set has an entry in granuleStatus: 1 or -1 from the transfer loop if it
\* was put in the download queue, 0 or -2 from the planning otherwise.
C35_StatusAtReconcile ==
    (mpc = "download" /\ tpc \in {"done", "skipped"}) =>
        \A p \in GranulePlaces :
            LET e == collContainer[p[1]].granContainer[p[2]].egid IN
            /\ e \in DOMAIN granuleStatus
            /\ IF e \in QueuedEgids THEN granuleStatus[e] \in {1, -1}
               ELSE granuleStatus[e] \in {0, -2}

\* C35 witness: the transfer loop has ended with one granule of the working
\* set transferred or failed and another resolved by the planning.
C35_Witness ==
    /\ mpc = "download" /\ tpc = "done"
    /\ \E p, q \in GranulePlaces :
          LET e == collContainer[p[1]].granContainer[p[2]].egid
              f == collContainer[q[1]].granContainer[q[2]].egid
          IN  /\ e \in QueuedEgids /\ HasStatus(e, -1)
              /\ f \notin QueuedEgids /\ f \in DOMAIN granuleStatus

\* C21: once planning is over, every granule of a collection whose
\* directory could not be provisioned has status -2 and is neither queued
\* nor transferred; in a collection whose directory is ready, a granule whose
\* leaf directory could not be provisioned has status -2 and is neither
\* queued nor transferred, and every other granule was planned: it is queued
\* or marked as already fetched.
C21_DirectoryFailure ==
    mpc = "download" =>
        \A p \in GranulePlaces :
            LET c    == collContainer[p[1]]
                g    == c.granContainer[p[2]]
                leaf == LeafOf(c.collID, g.accessURL)
                Skipped == /\ HasStatus(g.egid, -2)
                           /\ g.egid \notin QueuedEgids
                           /\ g.egid \notin StartedEgids
            IN  /\ dirs[c.collID] # "rw" => Skipped
                /\ (dirs[c.collID] = "rw" /\ dirs[leaf] # "rw") => Skipped
                /\ (dirs[c.collID] = "rw" /\ dirs[leaf] = "rw") =>
                       (g.egid \in QueuedEgids \/ HasStatus(g.egid, 0))

\* C21 witness: in a collection whose directory was made, one granule lost
\* its leaf directory and has status -2 while another, with a leaf of its
\* own, is being transferred.
C21_Witness ==
    /\ mpc = "download"
    /\ \E p, q \in GranulePlaces :
          LET c == collContainer[p[1]]
              g == c.granContainer[p[2]]
              h == c.granContainer[q[2]]
          IN  /\ p[1] = q[1] /\ dirs[c.collID] = "rw"
              /\ dirs[LeafOf(c.collID, g.accessURL)] # "rw"
              /\ HasStatus(g.egid, -2) /\ g.egid \notin QueuedEgids
              /\ h.egid \in StartedEgids

\* The positions of the download queue that hold granule id e.
QueuePlaces(e) == {i \in DOMAIN granuleQueue : granuleQueue[i][1] = e}

\* C22: with DB tracking on, once planning is over, a granule whose
\* directories are ready either has status 0 and is neither queued nor
\* transferred (the database reported it), or is in the download queue
\* exactly once, with its local path, which is also its localFileName.
C22_AsStated ==
    (dbFlag /\ mpc = "download") =>
        \A p \in GranulePlaces :
            LET c    == collContainer[p[1]]
                g    == c.granContainer[p[2]]
                leaf == LeafOf(c.collID, g.accessURL)
            IN  (dirs[c.collID] = "rw" /\ dirs[leaf] = "rw") =>
                    \/ /\ HasStatus(g.egid, 0)
                       /\ QueuePlaces(g.egid) = {}
                       /\ g.egid \notin StartedEgids
                    \/ /\ Cardinality(QueuePlaces(g.egid)) = 1
                       /\ \A i \in QueuePlaces(g.egid) : granuleQueue[i] = <<g.egid, leaf>>
                       /\ g.localFileName = leaf

\* C25: the download queue of a run holds no granule id twice, and no
\* granule id is the key of more than one completed transfer of the run.
C25_AsStated ==
    /\ \A i, j \in DOMAIN granuleQueue :
          i # j => granuleQueue[i][1] # granuleQueue[j][1]
    /\ \A i, j \in DOMAIN completed :
          i # j => completed[i][2] # completed[j][2]

\* C27: a dataset query that getReqData passes over (0 or several results)
\* adds no collection and the next query follows; a dataset query that is
\* answered adds its collection, with no granule when the granule query got
\* more hits than the result size allows and with every hit otherwise, and
\* the next query follows.
C27_QueryFaults ==
    [][(mpc = "query" /\ qi' = qi + 1) =>
          /\ mpc' = "query"
          /\ \/ /\ hitsReceived' = hitsReceived
                /\ collContainer' = collContainer
                /\ numCollections' = numCollections
             \/ /\ Len(hitsReceived') = Len(hitsReceived) + 1
                /\ Len(collContainer') = Len(collContainer) + 1
                /\ numCollections' = numCollections + 1
                /\ SubSeq(collContainer', 1, Len(collContainer)) = collContainer
                /\ LET hits == Last(hitsReceived')
                       grans == Last(collContainer').granContainer
                   IN  Len(grans) = IF hits > maxDataFiles THEN 0 ELSE hits]_vars

\* C27 witness: getReqData is over after one query passed over and one
\* whose granule query got more hits than the result size: the working set
\* holds one collection, without granules.
C27_Witness ==
    /\ mpc \in {"dlinit", "load"} /\ qi = MaxQueries
    /\ Len(collContainer) = 1 /\ numCollections = 1
    /\ collContainer[1].granContainer = <<>>
    /\ Len(hitsReceived) = 1 /\ hitsReceived[1] > maxDataFiles

\* The inserts update attempted for a granule, and for one of its polypoints.
GranuleInserts(ci, gi) ==
    {i \in DOMAIN dbInserts : /\ dbInserts[i].kind = "G"
                              /\ dbInserts[i].c = ci /\ dbInserts[i].g = gi}
PolyPointInserts(ci, gi, pi) ==
    {i \in DOMAIN dbInserts : /\ dbInserts[i].kind = "P" /\ dbInserts[i].c = ci
                              /\ dbInserts[i].g = gi /\ dbInserts[i].p = pi}

\* update went through the granules of collection ci: the collection has
\* granules and its insert, if one was attempted, succeeded.
GranulesProcessed(ci) ==
    /\ Len(collContainer[ci].granContainer) > 0
    /\ \A i \in DOMAIN dbInserts :
          (dbInserts[i].kind = "C" /\ dbInserts[i].c = ci) => dbInserts[i].ok

\* C23: when update is over, in a collection whose granules were processed
\* one granule insert was attempted for each granule with status 1 and none
\* for any other; after a failed granule insert the granule and all its
\* polypoints are flagged and no polypoint insert was attempted; after a
\* successful one each polypoint had one insert of its own and is flagged
\* exactly if that insert failed.
C23_GranuleLevel ==
    mpc = "savetx" =>
        \A p \in GranulePlaces :
            GranulesProcessed(p[1]) =>
                LET g  == collContainer[p[1]].granContainer[p[2]]
                    gs == GranuleInserts(p[1], p[2])
                IN  /\ Cardinality(gs) = IF g.downloadStatus = 1 THEN 1 ELSE 0
                    /\ \A i \in gs :
                          IF dbInserts[i].ok
                          THEN /\ ~g.dbInsertFailed
                               /\ \A pi \in DOMAIN g.polyPoints :
                                     LET ps == PolyPointInserts(p[1], p[2], pi) IN
                                     /\ Cardinality(ps) = 1
                                     /\ \A j \in ps : g.polyPoints[pi] = ~dbInserts[j].ok
                          ELSE /\ g.dbInsertFailed
                               /\ \A pi \in DOMAIN g.polyPoints :
                                     /\ g.polyPoints[pi]
                                     /\ PolyPointInserts(p[1], p[2], pi) = {}
                    /\ gs = {} =>
                          /\ ~g.dbInsertFailed
                          /\ \A pi \in DOMAIN g.polyPoints :
                                ~g.polyPoints[pi] /\ PolyPointInserts(p[1], p[2], pi) = {}

\* C23 witness: update is over; a granule was inserted and of its two
\* polypoints the first failed and the second did not, and the insert of
\* another granule with status 1 failed.
C23_Witness ==
    /\ mpc = "savetx"
    /\ \E p, q \in GranulePlaces :
          /\ GranulesProcessed(p[1]) /\ GranulesProcessed(q[1])
          /\ \E i \in GranuleInserts(p[1], p[2]) : dbInserts[i].ok
          /\ collContainer[p[1]].granContainer[p[2]].polyPoints = <<TRUE, FALSE>>
          /\ \E i \in GranuleInserts(q[1], q[2]) : ~dbInserts[i].ok

\* The entries that identify the flagged entities of kind k in the working
\* set, and how many flagged entities of that kind there are.
FlaggedEntries(k) ==
    CASE k = "C" -> {CEntry(collContainer[ci]) :
                        ci \in {c \in DOMAIN collContainer : collContainer[c].dbInsertFailed}}
      [] k = "G" -> {GEntry(collContainer[p[1]], collContainer[p[1]].granContainer[p[2]]) :
                        p \in {q \in GranulePlaces :
                                  collContainer[q[1]].granContainer[q[2]].dbInsertFailed}}
      [] OTHER -> UNION {{PEntry(collContainer[p[1]].granContainer[p[2]], pi) :
                             pi \in {i \in DOMAIN collContainer[p[1]].granContainer[p[2]].polyPoints :
                                        collContainer[p[1]].granContainer[p[2]].polyPoints[i]}} :
                         p \in GranulePlaces}

C36_AsStated ==
    /\ mpc = "savetx" => \A k \in Kinds : ~ptxFile[k].exists
    /\ \A k \in Kinds : ptxFile0[k].exists => ParseOk(ptxFile0[k])

\* C30: no granule of which every attempt so far ended with status -1 or
\* -2, in whatever invocation, has been given a row in the store.
C30_AsStated == store \cap (failed \ fetched) = {}

NoneText == "<None>"

Quoted(v) == [form |-> "quoted", text |-> v]
Statement(t, cols, vals) == [table |-> t, columns |-> cols, values |-> vals, raised |-> FALSE]
NoStatement == [table |-> "", columns |-> <<>>, values |-> <<>>, raised |-> FALSE]
RaisedStatement == [table |-> "", columns |-> <<>>, values |-> <<>>, raised |-> TRUE]

\* "convert(null, datetime)" for the text "null", "convert('v',datetime)"
\* otherwise.
DateValue(v) ==
    IF v = "null" THEN [form |-> "convertnull", text |-> ""]
    ELSE [form |-> "convert", text |-> v]

\* collectionInsert 1634-1665.
CollectionInsertSql(c) ==
    Statement("collections",
              <<"collID", "shortName", "archCenter", "collDesc", "begDateTime",
                "endDateTime", "doi">>,
              <<Quoted(c.cid), Quoted(c.csn), Quoted(c.cac), Quoted(c.cde),
                DateValue(c.cbd), DateValue(c.ced), Quoted(c.doi)>>)

\* granuleInsert 1668-1713: ppf is 1 or 0, the bounds go through str().
GranuleInsertSql(g, cid) ==
    Statement("granules",
              <<"granID", "collID", "granuleUR", "begDateTime", "endDateTime",
                "hasPolyPoints", "w_bound", "s_bound", "e_bound", "n_bound",
                "localFileName">>,
              <<Quoted(g.gid), Quoted(cid), Quoted(g.gur), DateValue(g.gbd),
                DateValue(g.ged), Quoted(ToString(IF g.ppt # 0 THEN 1 ELSE 0)),
                Quoted(ToString(g.gwb)), Quoted(ToString(g.gsb)),
                Quoted(ToString(g.geb)), Quoted(ToString(g.gnb)), Quoted(g.glf)>>)

\* polypointInsert 1715-1730.
PolypointInsertSql(gid, lat, lon) ==
    Statement("polypoints", <<"granID", "latitude", "longitude">>,
              <<Quoted(gid), Quoted(ToString(lat)), Quoted(ToString(lon))>>)

\* makeCelement 2025-2040, makeGelement 2042-2067, makePelement 2069-2078:
\* the sub-elements in the order they are created, each with its text.
MakeCelement(c) ==
    << <<"collID", c.cid>>, <<"shortName", c.csn>>, <<"archCenter", c.cac>>,
       <<"collDesc", c.cde>>, <<"begDateTime", c.cbd>>, <<"endDateTime", c.ced>>,
       <<"doi", c.doi>> >>
MakeGelement(g, cid) ==
    << <<"granID", g.gid>>, <<"collID", cid>>, <<"granuleUR", g.gur>>,
       <<"sizeMB", ToString(g.size)>>, <<"begDateTime", g.gbd>>,
       <<"endDateTime", g.ged>>, <<"hasPolyPoints", ToString(g.ppt)>>,
       <<"w_bound", ToString(g.gwb)>>, <<"s_bound", ToString(g.gsb)>>,
       <<"e_bound", ToString(g.geb)>>, <<"n_bound", ToString(g.gnb)>>,
       <<"localFileName", g.glf>> >>
MakePelement(p, gid) ==
    << <<"granID", gid>>, <<"latitude", ToString(p.lat)>>,
       <<"longitude", ToString(p.lon)>> >>

\* ET.tostring then ET.parse: an element written with an empty text comes
\* back with text None.
XmlText(v) == IF v = "" THEN NoneText ELSE v
Parsed(e) == [i \in DOMAIN e |-> <<e[i][1], XmlText(e[i][2])>>]

\* processtx 1883-1893: the table and the fields read for a kind.
TableOf(ttype) ==
    CASE ttype = "C" -> "collections" [] ttype = "G" -> "granules"
      [] OTHER -> "polypoints"
FieldsOf(ttype) ==
    CASE ttype = "C" -> <<"collID", "shortName", "archCenter", "collDesc",
                          "begDateTime", "endDateTime", "doi">>
      [] ttype = "G" -> <<"granID", "collID", "granuleUR", "sizeMB", "begDateTime",
                          "endDateTime", "hasPolyPoints", "w_bound", "s_bound",
                          "e_bound", "n_bound", "localFileName">>
      [] OTHER -> <<"granID", "latitude", "longitude">>

\* transaction.find(f).text: the text of the first sub-element with the tag;
\* find gives None when there is none.
FindText(e, f) ==
    IF \E i \in DOMAIN e : e[i][1] = f
    THEN e[CHOOSE i \in DOMAIN e : e[i][1] = f /\ \A j \in 1..(i - 1) : e[j][1] # f][2]
    ELSE NoneText

\* processtx 1913-1941: the statement built from a transaction element; a
\* missing element or a None text raises (AttributeError, TypeError).
ProcessTxSql(ttype, e) ==
    LET fields == FieldsOf(ttype)
        values == [i \in DOMAIN fields |-> FindText(e, fields[i])]
    IN  IF \E i \in DOMAIN values : values[i] = NoneText THEN RaisedStatement
        ELSE Statement(TableOf(ttype), fields,
                       [i \in DOMAIN fields |->
                           IF fields[i] \in {"begDateTime", "endDateTime"}
                           THEN DateValue(values[i]) ELSE Quoted(values[i])])

\* The entities update can flag: a Collection, a Granule with the id of its
\* collection (localFileName is "" until the granule is planned), a
\* PolyPoint with the id of its granule.
DateTexts == {"null", "2015-06-01T00:00:00"}
Collections == [kind : {"C"}, cid : {"C1"}, csn : {"MOD04"}, cac : {"LAADS"},
                cde : {"aerosol"}, cbd : DateTexts, ced : DateTexts,
                doi : {"NoDOIauth/NoDOI"}]
Granules == [kind : {"G"}, cid : {"C1"}, gid : {"G1"}, gur : {"UR1"}, size : 0..1,
             gbd : DateTexts, ged : DateTexts, ppt : 0..1, gwb : {-180, 0},
             gsb : {-90}, geb : {180}, gnb : {90}, glf : {"", "/data/C1/G1.hdf"}]
PolyPoints == [kind : {"P"}, gid : {"G1"}, lat : 0..1, lon : 0..1]

HIdle ==
    /\ store = {} /\ fetched = {} /\ failed = {}
    /\ storeC = {} /\ storeP = {} /\ misread = FALSE

SIdle ==
    /\ spc = "idle" /\ entity = [kind |-> ""] /\ pendEntry = <<>>
    /\ replaySql = NoStatement /\ freshSql = NoStatement

\* savePendTx 1986-1996: the element of the flagged entity.
CaptureEntity ==
    /\ spc = "entity"
    /\ pendEntry' = CASE entity.kind = "C" -> MakeCelement(entity)
                      [] entity.kind = "G" -> MakeGelement(entity, entity.cid)
                      [] OTHER -> MakePelement(entity, entity.gid)
    /\ spc' = "captured"
    /\ UNCHANGED <<entity, replaySql, freshSql>>
    /\ UNCHANGED <<rvars, tvars, wvars, uvars>>
    /\ UNCHANGED hvars

\* processtx 1896-1941 in a later run: the file is parsed and the statement
\* of the element is built.
ReplayEntry ==
    /\ spc = "captured"
    /\ replaySql' = ProcessTxSql(entity.kind, Parsed(pendEntry))
    /\ spc' = "replayed"
    /\ UNCHANGED <<entity, pendEntry, freshSql>>
    /\ UNCHANGED <<rvars, tvars, wvars, uvars>>
    /\ UNCHANGED hvars

\* update 1745-1775: the statement of the insert made for the entity itself.
FreshInsert ==
    /\ spc = "replayed"
    /\ freshSql' = CASE entity.kind = "C" -> CollectionInsertSql(entity)
                     [] entity.kind = "G" -> GranuleInsertSql(entity, entity.cid)
                     [] OTHER -> PolypointInsertSql(entity.gid, entity.lat, entity.lon)
    /\ spc' = "done"
    /\ UNCHANGED <<entity, pendEntry, replaySql>>
    /\ UNCHANGED <<rvars, tvars, wvars, uvars>>
    /\ UNCHANGED hvars

SNext ==
    \/ CaptureEntity
    \/ ReplayEntry
    \/ FreshInsert

\* C28 as stated: the statement replay builds from the captured entry of
\* an entity has the table, the columns and the values of the statement the
\* fresh insert builds for it, and replay finds every field it reads.
C28_AsStated ==
    spc = "done" =>
        /\ ~replaySql.raised
        /\ \A f \in Range(FieldsOf(entity.kind)) : \E i \in DOMAIN pendEntry : pendEntry[i][1] = f
        /\ replaySql.table = freshSql.table
        /\ replaySql.columns = freshSql.columns
        /\ replaySql.values = freshSql.values

\* The idle values of each part's variables, for the other specifications.
RIdle ==
    /\ ptxFile = [k \in Kinds |-> Absent]
    /\ ptxFile0 = ptxFile
    /\ process = [k \in Kinds |-> FALSE]
    /\ rpc = "replayed"
    /\ rkind = 1
    /\ txs = <<>>
    /\ txi = 1
    /\ pendRoot = <<>>
    /\ inserts = <<>>
    /\ rewrite = "none"

TIdle ==
    /\ tpc = "idle"
    /\ queue = <<>>
    /\ num_urls = 0
    /\ num_processed = 0
    /\ freelist = <<>>
    /\ inflight = {}
    /\ cegid = [h \in Handles |-> 0]
    /\ curlMsgs = <<>>
    /\ granuleStatus = EmptyDict
    /\ files = {}
    /\ started = <<>>
    /\ completed = <<>>

WIdleWith(flag) ==
    /\ dbFlag = flag
    /\ mpc = "idle"
    /\ run = 1
    /\ qi = 0
    /\ collContainer = <<>>
    /\ numCollections = 0
    /\ pdlFile = Absent
    /\ havePendDwnld = FALSE
    /\ pendColls = <<>>
    /\ lci = 1
    /\ lgi = 1
    /\ collIndex = 0
    /\ availDiskSpaceMB = 0
    /\ dwnloadLimit = 1
    /\ dirs = EmptyDict
    /\ dirOps = <<>>
    /\ granuleQueue = <<>>
    /\ logged = <<>>
    /\ catalog = <<>>
    /\ request = <<>>
    /\ dataSetQueries = <<>>
    /\ maxDataFiles = MaxGran /\ hitsReceived = HitsOf(collContainer)

WIdle == WIdleWith(TRUE)

UIdle ==
    /\ upc = "idle"
    /\ uci = 1
    /\ ugi = 1
    /\ upi = 1
    /\ dbInserts = <<>>

\* The replay of pending transactions, with DB tracking on or off.
ReplayInit ==
    /\ RInit /\ TIdle /\ UIdle /\ SIdle /\ HIdle
    /\ \E flag \in BOOLEAN : WIdleWith(flag)

SpecReplay == ReplayInit /\ [][RNext]_vars

\* multidownload on a queue of distinct granules.
TransferInit == TInit /\ RIdle /\ WIdle /\ UIdle /\ SIdle /\ HIdle

SpecTransfer == TransferInit /\ [][TNext]_vars

\* The transfer on handle h finishes during a perform, and info_read hands
\* over at least one of the messages waiting.
Completes(h) ==
    /\ Perform
    /\ h \in Range(HandlesOf(curlMsgs')) \ Range(HandlesOf(curlMsgs))
Delivers == InfoRead /\ Len(curlMsgs') < Len(curlMsgs)

\* The loop under its scheduling: the statements of multidownload follow
\* one another, libcurl ends every transfer it was given (TIMEOUT is set on
\* each handle) and info_read returns messages that are waiting.
SpecTransferLive ==
    /\ TransferInit /\ [][TNext]_vars
    /\ WF_vars(TNext)
    /\ WF_vars(Delivers)
    /\ \A h \in Handles : SF_vars(Completes(h))

\* Invocations in download mode with DB tracking on, the first without a
\* pending-download file, over a catalog of 1 MB granules and an empty
\* storage tree with room for every download.
MergeInit ==
    /\ RIdle /\ UIdle /\ SIdle /\ HIdle
    /\ tpc = "idle" /\ queue = <<>> /\ num_urls = 0 /\ num_processed = 0
    /\ freelist = <<>> /\ inflight = {} /\ cegid = [h \in Handles |-> 0]
    /\ curlMsgs = <<>> /\ granuleStatus = EmptyDict /\ files = {}
    /\ started = <<>> /\ completed = <<>>
    /\ dbFlag = TRUE
    /\ mpc = "start" /\ run = 1 /\ qi = 0
    /\ collContainer = <<>> /\ numCollections = 0
    /\ pdlFile = Absent /\ havePendDwnld = FALSE
    /\ pendColls = <<>> /\ lci = 1 /\ lgi = 1 /\ collIndex = 0
    /\ availDiskSpaceMB = BigDisk /\ dwnloadLimit = BigDisk
    /\ dirs = [p \in PathIds |-> "none"]
    /\ dirOps = <<>> /\ granuleQueue = <<>> /\ logged = <<>>
    /\ catalog = [g \in GranIds |-> [coll |-> CollOf(g), size |-> 1, ppts |-> <<>>, url |-> g]]
    /\ request = StaticRequest /\ dataSetQueries = <<>>
    /\ maxDataFiles = MaxGran /\ hitsReceived = HitsOf(collContainer)

SpecMerge == MergeInit /\ [][WNext]_vars

\* Invocations in download mode with DB tracking on and a request of one
\* dataset, the first without a pending-download file and with room for
\* every download; each later one reads the free disk space anew.
PendingInit ==
    /\ RIdle /\ UIdle /\ SIdle /\ HIdle
    /\ tpc = "idle" /\ queue = <<>> /\ num_urls = 0 /\ num_processed = 0
    /\ freelist = <<>> /\ inflight = {} /\ cegid = [h \in Handles |-> 0]
    /\ curlMsgs = <<>> /\ granuleStatus = EmptyDict /\ files = {}
    /\ started = <<>> /\ completed = <<>>
    /\ dbFlag = TRUE
    /\ mpc = "start" /\ run = 1 /\ qi = 0
    /\ collContainer = <<>> /\ numCollections = 0
    /\ pdlFile = Absent /\ havePendDwnld = FALSE
    /\ pendColls = <<>> /\ lci = 1 /\ lgi = 1 /\ collIndex = 0
    /\ availDiskSpaceMB = BigDisk /\ dwnloadLimit = BigDisk
    /\ dirs = [p \in PathIds |-> "none"]
    /\ dirOps = <<>> /\ granuleQueue = <<>> /\ logged = <<>>
    /\ catalog = [g \in GranIds |-> [coll |-> CollOf(g), size |-> 1, ppts |-> <<>>, url |-> g]]
    /\ request = <<StaticDataset>> /\ dataSetQueries = <<>>
    /\ maxDataFiles = MaxGran /\ hitsReceived = <<>>

PNext ==
    \/ RequestInit
    \/ DatasetQueryIgnored
    \/ DatasetQueryOne
    \/ DatasetQueryFatal
    \/ QueriesDone
    \/ LoadParse
    \/ MergeCollection
    \/ MergeGranuleStep
    \/ LoadDone
    \/ ZapPending
    \/ DownloaderInit
    \/ PlanDownload
    \/ LoopTest
    \/ Fill
    \/ Perform
    \/ InfoRead
    \/ Reconcile
    \/ Cleanup
    \/ SavePending
    \/ NextRunOnDisk

SpecPending == PendingInit /\ [][PNext]_vars

\* An invocation in download mode arrives at the construction of the
\* downloader: a working set fetched from a catalog with granules of 0 to
\* MaxSizeMB, some free disk space, a valid download limit, a storage tree
\* that is missing or read-only, with or without DB tracking.
DownloadInit ==
    /\ RIdle /\ UIdle /\ SIdle /\ HIdle /\ TIdle
    /\ dbFlag \in BOOLEAN
    /\ mpc = "dlinit" /\ run = 1 /\ qi = MaxQueries
    /\ catalog \in {[g \in GranIds |-> [coll |-> CollOf(g), size |-> sz[g], ppts |-> <<>>,
                                       url |-> g]]
                     : sz \in [GranIds -> 0..MaxSizeMB]}
    /\ collContainer \in WorkingSets(catalog)
    /\ numCollections = Len(collContainer)
    /\ pdlFile = Absent /\ havePendDwnld = FALSE
    /\ pendColls = <<>> /\ lci = 1 /\ lgi = 1 /\ collIndex = 0
    /\ availDiskSpaceMB \in 0..MaxDiskMB
    /\ dwnloadLimit \in 1..MaxLimitMB
    /\ \E d \in {"none", "ro"} : dirs = [p \in PathIds |-> d]
    /\ dirOps = <<>> /\ granuleQueue = <<>> /\ logged = <<>>
    /\ request = StaticRequest
    /\ dataSetQueries = [i \in 1..MaxQueries |-> ECHOdsQuery(StaticDataset)]
    /\ maxDataFiles = MaxGran /\ hitsReceived = HitsOf(collContainer)

SpecDownload == DownloadInit /\ [][DNext]_vars

\* An invocation with DB tracking on arrives at the construction of the
\* downloader with room for every download: a working set fetched from a
\* catalog of 1 MB granules, the first with polygon points and filed under
\* the first collection, the others with or without and under any.
UpdateInit ==
    /\ RIdle /\ UIdle /\ SIdle /\ HIdle /\ TIdle
    /\ dbFlag = TRUE
    /\ mpc = "dlinit" /\ run = 1 /\ qi = MaxQueries
    /\ catalog \in {[g \in GranIds |-> [coll |-> co[g], size |-> 1, ppts |-> pp[g],
                                       url |-> g]]
                     : co \in {f \in [GranIds -> CollIds] : f[1] = 1},
                       pp \in {f \in [GranIds -> {<<>>, <<0, 0>>}] : f[1] # <<>>}}
    /\ collContainer \in WorkingSets(catalog)
    /\ numCollections = Len(collContainer)
    /\ pdlFile = Absent /\ havePendDwnld = FALSE
    /\ pendColls = <<>> /\ lci = 1 /\ lgi = 1 /\ collIndex = 0
    /\ availDiskSpaceMB = BigDisk /\ dwnloadLimit = BigDisk
    /\ dirs = [p \in PathIds |-> "none"]
    /\ dirOps = <<>> /\ granuleQueue = <<>> /\ logged = <<>>
    /\ request = StaticRequest
    /\ dataSetQueries = [i \in 1..MaxQueries |-> ECHOdsQuery(StaticDataset)]
    /\ maxDataFiles = MaxGran /\ hitsReceived = HitsOf(collContainer)

SpecUpdate == UpdateInit /\ [][DUNext]_vars

\* An invocation arrives at the construction of the downloader with room
\* for every download: a working set fetched from a catalog of 1 MB granules
\* of the first collection, which may share their day and URL basename.
CleanupInit ==
    /\ RIdle /\ UIdle /\ SIdle /\ HIdle /\ TIdle
    /\ dbFlag \in BOOLEAN
    /\ mpc = "dlinit" /\ run = 1 /\ qi = MaxQueries
    /\ catalog \in {[g \in GranIds |-> [coll |-> 1, size |-> 1, ppts |-> <<>>,
                                       url |-> u[g]]]
                     : u \in {f \in [GranIds -> GranIds] : f[1] = 1}}
    /\ collContainer \in WorkingSets(catalog)
    /\ numCollections = Len(collContainer)
    /\ pdlFile = Absent /\ havePendDwnld = FALSE
    /\ pendColls = <<>> /\ lci = 1 /\ lgi = 1 /\ collIndex = 0
    /\ availDiskSpaceMB = BigDisk /\ dwnloadLimit = BigDisk
    /\ dirs = [p \in PathIds |-> "none"]
    /\ dirOps = <<>> /\ granuleQueue = <<>> /\ logged = <<>>
    /\ request = StaticRequest
    /\ dataSetQueries = [i \in 1..MaxQueries |-> ECHOdsQuery(StaticDataset)]
    /\ maxDataFiles = MaxGran /\ hitsReceived = HitsOf(collContainer)

SpecCleanup == CleanupInit /\ [][DNext]_vars

\* The day-of-year ordinals of the start and of the end of a recurring
\* dataset in the years of its range.
StartOrdinals(ds) == {DayOfYear(yr, ds.mon_start, ds.day_start) : yr \in ds.yr_start..ds.yr_end}
EndOrdinals(ds) == {DayOfYear(yr, ds.mon_end, ds.day_end) : yr \in ds.yr_start..ds.yr_end}

\* C12: the day window emitted for a recurring dataset starts at the least
\* start ordinal and ends at the greatest end ordinal over the years of the
\* range, and so contains the start and the end ordinal of every year.
C12_AsStated ==
    \A i \in DOMAIN dataSetQueries :
        request[i].temporal = "recurring" =>
            LET q == dataSetQueries[i]
                ds == request[i]
            IN  /\ q.temporal_start_day \in StartOrdinals(ds)
                /\ \A o \in StartOrdinals(ds) : q.temporal_start_day <= o
                /\ q.temporal_end_day \in EndOrdinals(ds)
                /\ \A o \in EndOrdinals(ds) : o <= q.temporal_end_day
                /\ \A o \in StartOrdinals(ds) \cup EndOrdinals(ds) :
                       q.temporal_start_day <= o /\ o <= q.temporal_end_day

\* A dataset has one of the defects: a bounding box without one of w/s/e/n,
\* no version, bounding box or temporal criteria, a temporal type other than
\* static and recurring, or a recurring search with a missing year, start or
\* end element, start year after end year, a month outside 1..12, a day
\* outside 1..31 or start month after end month.
Defective(ds) ==
    \/ ds.bb \in {"partial", "none"}
    \/ ~ds.version
    \/ ds.temporal \in {"none", "notype", "other"}
    \/ /\ ds.temporal = "recurring"
       /\ \/ ds.year = "missing" \/ ds.start = "missing" \/ ds.end = "missing"
          \/ ds.year = "ok" /\ ds.yr_start > ds.yr_end
          \/ ds.start = "ok" /\ (ds.mon_start \notin 1..12 \/ ds.day_start \notin 1..31)
          \/ ds.end = "ok" /\ (ds.mon_end \notin 1..12 \/ ds.day_end \notin 1..31)
          \/ ds.start = "ok" /\ ds.end = "ok" /\ ds.mon_start > ds.mon_end

\* A recurring dataset that passes every check of the validation: its
\* elements are present, the years ordered, the months in 1..12 and ordered
\* and the days in 1..31.
ValidRecurring(ds) ==
    /\ ds.temporal = "recurring" /\ ~Defective(ds)
    /\ ds.year = "ok" /\ ds.start = "ok" /\ ds.end = "ok"

\* C33: a request whose recurring datasets all pass the validation is
\* loaded without error, one query descriptor per dataset, whether or not
\* the start and end month/day exist in every year of the range.
C33_AsStated ==
    (/\ mpc # "start"
     /\ \A i \in DOMAIN request :
           request[i] = StaticDataset \/ ValidRecurring(request[i])) =>
        /\ mpc # "crash"
        /\ Len(dataSetQueries) = Len(request)

\* C20: when some dataset of the request is defective the request load
\* fails and the run ends with no catalog query issued for any dataset,
\* those listed before the defective one included.
C20_FatalAndTotal ==
    (\E i \in DOMAIN request : Defective(request[i])) =>
        /\ mpc \in {"start", "exit", "crash"}
        /\ qi = 0 /\ collContainer = <<>>

\* C20 witness: the second dataset of a request is defective and the first
\* is not; the descriptor of the first was built, the load failed and the
\* run has ended without a query.
C20_Witness ==
    /\ Len(request) = 2
    /\ ~Defective(request[1]) /\ Defective(request[2])
    /\ Len(dataSetQueries) = 1
    /\ mpc = "exit" /\ qi = 0

\* The datasets a request is drawn from: one recurring dataset with every
\* element present, over years, months and days on both sides of the limits
\* the validation checks.
MonthInputs == {0, 1, 2, 3, 13}
DayInputs == {0, 1, 29, 30, 31, 32}

RecurringInputs ==
    {RecurringDataset(ys, ye, ms, dS, me, dE) :
        ys \in Years, ye \in Years, ms \in MonthInputs, dS \in DayInputs,
        me \in MonthInputs, dE \in DayInputs}

\* The datasets of a request of several: well-formed ones, and every way of
\* leaving out or damaging one element of a well-formed one.
RecurringOk == RecurringDataset(YearLo, YearHi, 1, 1, 3, 31)

DamagedInputs ==
    {[StaticDataset EXCEPT !.bb = b] : b \in {"partial", "none"}}
    \cup {[StaticDataset EXCEPT !.version = FALSE]}
    \cup {[StaticDataset EXCEPT !.temporal = t] : t \in {"none", "notype", "other"}}
    \cup {[StaticDataset EXCEPT !.st = FALSE], [StaticDataset EXCEPT !.et = FALSE]}
    \cup {[RecurringOk EXCEPT !.year = e] : e \in {"missing", "empty"}}
    \cup {[RecurringOk EXCEPT !.start = e] : e \in {"missing", "empty"}}
    \cup {[RecurringOk EXCEPT !.end = e] : e \in {"missing", "empty"}}
    \cup {RecurringDataset(YearHi, YearLo, 1, 1, 3, 31),
          RecurringDataset(YearLo, YearHi, 0, 1, 3, 31),
          RecurringDataset(YearLo, YearHi, 1, 0, 3, 31),
          RecurringDataset(YearLo, YearHi, 1, 1, 13, 31),
          RecurringDataset(YearLo, YearHi, 1, 1, 3, 32),
          RecurringDataset(YearLo, YearHi, 3, 1, 1, 31)}

SeveralInputs == {StaticDataset, RecurringOk} \cup DamagedInputs

\* An invocation starts on a request of one recurring dataset or of
\* MaxQueries datasets, over a catalog of 1 MB granules.
RequestLoadInit ==
    /\ RIdle /\ UIdle /\ SIdle /\ HIdle /\ TIdle
    /\ dbFlag = TRUE
    /\ mpc = "start" /\ run = 1 /\ qi = 0
    /\ collContainer = <<>> /\ numCollections = 0
    /\ pdlFile = Absent /\ havePendDwnld = FALSE
    /\ pendColls = <<>> /\ lci = 1 /\ lgi = 1 /\ collIndex = 0
    /\ availDiskSpaceMB = BigDisk /\ dwnloadLimit = BigDisk
    /\ dirs = [p \in PathIds |-> "none"]
    /\ dirOps = <<>> /\ granuleQueue = <<>> /\ logged = <<>>
    /\ catalog = [g \in GranIds |-> [coll |-> CollOf(g), size |-> 1, ppts |-> <<>>, url |-> g]]
    /\ request \in {<<d>> : d \in RecurringInputs} \cup [1..MaxQueries -> SeveralInputs]
    /\ dataSetQueries = <<>>
    /\ maxDataFiles = MaxGran /\ hitsReceived = HitsOf(collContainer)

QNext ==
    \/ RequestInit
    \/ DatasetQueryIgnored
    \/ DatasetQueryOne
    \/ DatasetQueryFatal
    \/ QueriesDone

SpecRequestLoad == RequestLoadInit /\ [][QNext]_vars

\* getReqData is entered with the queries of a loaded request, a result
\* size of 1..MaxGran data files and a catalog whose granules are filed
\* under any collection.
QueryInit ==
    /\ RIdle /\ UIdle /\ SIdle /\ HIdle /\ TIdle
    /\ dbFlag \in BOOLEAN
    /\ mpc = "query" /\ run = 1 /\ qi = 0
    /\ collContainer = <<>> /\ numCollections = 0
    /\ pdlFile = Absent /\ havePendDwnld = FALSE
    /\ pendColls = <<>> /\ lci = 1 /\ lgi = 1 /\ collIndex = 0
    /\ availDiskSpaceMB = BigDisk /\ dwnloadLimit = BigDisk
    /\ dirs = [p \in PathIds |-> "none"]
    /\ dirOps = <<>> /\ granuleQueue = <<>> /\ logged = <<>>
    /\ catalog \in {[g \in GranIds |-> [coll |-> co[g], size |-> 1, ppts |-> <<>>,
                                       url |-> g]]
                     : co \in [GranIds -> CollIds]}
    /\ request = StaticRequest
    /\ dataSetQueries = [i \in 1..MaxQueries |-> ECHOdsQuery(StaticDataset)]
    /\ maxDataFiles \in 1..MaxGran /\ hitsReceived = <<>>

\* getReqData 429-511 and the branch of __main__ that follows it.
GNext ==
    \/ DatasetQueryIgnored
    \/ DatasetQueryOne
    \/ DatasetQueryFatal
    \/ QueriesDone

SpecQuery == QueryInit /\ [][GNext]_vars

\* One flagged entity of any kind, before savePendTx captures it.
InsertTextInit ==
    /\ RIdle /\ TIdle /\ WIdle /\ UIdle /\ HIdle
    /\ spc = "entity"
    /\ entity \in Collections \cup Granules \cup PolyPoints
    /\ pendEntry = <<>> /\ replaySql = NoStatement /\ freshSql = NoStatement

SpecInsertText == InsertTextInit /\ [][SNext]_vars

\* An invocation, its request loaded, arrives at the replay block with or
\* without DB tracking: the collection and the granule queue hold one entry
\* each and there is no polypoint queue; the catalog holds 1 MB granules, the
\* first with polygon points, and the storage tree is empty with room for
\* every download.
MainInit ==
    /\ UIdle /\ SIdle /\ HIdle /\ TIdle
    /\ ptxFile = [k \in Kinds |-> IF k = "P" THEN Absent ELSE File(<<Iota(1)>>)]
    /\ ptxFile0 = ptxFile
    /\ process = [k \in Kinds |-> FALSE]
    /\ rpc = "main" /\ rkind = 1 /\ txs = <<>> /\ txi = 1
    /\ pendRoot = <<>> /\ inserts = <<>> /\ rewrite = "none"
    /\ dbFlag \in BOOLEAN
    /\ mpc = "query" /\ run = 1 /\ qi = 0
    /\ collContainer = <<>> /\ numCollections = 0
    /\ pdlFile = Absent /\ havePendDwnld = FALSE
    /\ pendColls = <<>> /\ lci = 1 /\ lgi = 1 /\ collIndex = 0
    /\ availDiskSpaceMB = BigDisk /\ dwnloadLimit = BigDisk
    /\ dirs = [p \in PathIds |-> "none"]
    /\ dirOps = <<>> /\ granuleQueue = <<>> /\ logged = <<>>
    /\ catalog = [g \in GranIds |-> [coll |-> CollOf(g), size |-> 1,
                                    ppts |-> IF g = 1 THEN <<0, 0>> ELSE <<>>,
                                    url |-> g]]
    /\ request = StaticRequest
    /\ dataSetQueries = [i \in 1..MaxQueries |-> ECHOdsQuery(StaticDataset)]
    /\ maxDataFiles = MaxGran /\ hitsReceived = HitsOf(collContainer)

\* __main__ from the replay block to the end of update.
MainNext ==
    \/ SkipReplay
    \/ HavePending
    \/ OpenPendingOk
    \/ OpenPendingFail
    \/ SkipKind
    \/ ParseTx
    \/ InsertOk
    \/ InsertFail
    \/ RemoveFileOk
    \/ RemoveFileFail
    \/ ReplayDone
    \/ DatasetQueryIgnored
    \/ DatasetQueryOne
    \/ DatasetQueryFatal
    \/ QueriesDone
    \/ DownloaderInit
    \/ PlanDownload
    \/ LoopTest
    \/ Fill
    \/ Perform
    \/ InfoRead
    \/ Reconcile
    \/ Cleanup
    \/ SavePending
    \/ UpdateBegin
    \/ UpdateCollection
    \/ UpdateGranule
    \/ UpdatePolyPoint
    \/ UpdateDone
    \/ SavePendTx

SpecMain == MainInit /\ [][MainNext]_vars

\* The pending-download record a previous invocation wrote for the first
\* granule of the catalog, whose directory could not be made.
LeftPending(cat) ==
    LET ws == <<GetGranules(ECHOcollection(cat[1].coll),
                            <<[egid |-> 1, size |-> cat[1].size,
                               ppts |-> cat[1].ppts, url |-> cat[1].url]>>)>>
    IN  PendingDoc(Reconciled(ws, DictSet(EmptyDict, 1, -2)))

\* As MainInit with a request of one dataset, and with the pending-download
\* file of a previous invocation on disk, which ECHOrequest.__init__ has
\* opened.
RecoveryInit ==
    /\ UIdle /\ SIdle /\ HIdle /\ TIdle
    /\ ptxFile = [k \in Kinds |-> IF k = "P" THEN Absent ELSE File(<<Iota(1)>>)]
    /\ ptxFile0 = ptxFile
    /\ process = [k \in Kinds |-> FALSE]
    /\ rpc = "main" /\ rkind = 1 /\ txs = <<>> /\ txi = 1
    /\ pendRoot = <<>> /\ inserts = <<>> /\ rewrite = "none"
    /\ dbFlag \in BOOLEAN
    /\ mpc = "query" /\ run = 1 /\ qi = 0
    /\ collContainer = <<>> /\ numCollections = 0
    /\ catalog = [g \in GranIds |-> [coll |-> CollOf(g), size |-> 1,
                                    ppts |-> IF g = 1 THEN <<0, 0>> ELSE <<>>,
                                    url |-> g]]
    /\ pdlFile = File(<<LeftPending(catalog)>>) /\ havePendDwnld = TRUE
    /\ pendColls = <<>> /\ lci = 1 /\ lgi = 1 /\ collIndex = 0
    /\ availDiskSpaceMB = BigDisk /\ dwnloadLimit = BigDisk
    /\ dirs = [p \in PathIds |-> "none"]
    /\ dirOps = <<>> /\ granuleQueue = <<>> /\ logged = <<>>
    /\ request = <<StaticDataset>>
    /\ dataSetQueries = <<ECHOdsQuery(StaticDataset)>>
    /\ maxDataFiles = MaxGran /\ hitsReceived = <<>>

\* __main__ from the replay block to the end of savePendTx.
RecoveryNext ==
    \/ SkipReplay
    \/ HavePending
    \/ OpenPendingOk
    \/ OpenPendingFail
    \/ SkipKind
    \/ ParseTx
    \/ InsertOk
    \/ InsertFail
    \/ RemoveFileOk
    \/ RemoveFileFail
    \/ ReplayDone
    \/ DatasetQueryIgnored
    \/ DatasetQueryOne
    \/ DatasetQueryFatal
    \/ QueriesDone
    \/ LoadParse
    \/ MergeCollection
    \/ MergeGranuleStep
    \/ LoadDone
    \/ ZapPending
    \/ DownloaderInit
    \/ PlanDownload
    \/ LoopTest
    \/ Fill
    \/ Perform
    \/ InfoRead
    \/ Reconcile
    \/ Cleanup
    \/ SavePending
    \/ UpdateBegin
    \/ UpdateCollection
    \/ UpdateGranule
    \/ UpdatePolyPoint
    \/ UpdateDone
    \/ SavePendTx

SpecRecovery == RecoveryInit /\ [][RecoveryNext]_vars

\* C37: without DB tracking no step of a download run replays, deletes or
\* writes a queue of pending transactions, loads, deletes or writes the
\* pending-download record, or looks a row up or inserts one; and the
\* planning puts every granule whose directory could be made in the
\* download queue, giving none the status 0 of a granule found in the store.
C37_NoDBFrame ==
    [][~dbFlag =>
          /\ ptxFile' = ptxFile /\ inserts' = inserts
          /\ rpc' \in {"main", "replayed"}
          /\ pdlFile' = pdlFile /\ pendColls' = pendColls /\ logged' = logged
          /\ upc' = "idle" /\ dbInserts' = dbInserts
          /\ store' = store /\ storeC' = storeC /\ storeP' = storeP
          /\ misread' = misread
          /\ mpc' \notin {"load", "merge", "zap", "save", "update", "savetx"}
          /\ (mpc = "plan" /\ mpc' # mpc) =>
                \A ci \in DOMAIN collContainer' :
                \A gi \in DOMAIN collContainer'[ci].granContainer :
                    LET e == collContainer'[ci].granContainer[gi].egid IN
                    \/ \E i \in DOMAIN granuleQueue' : granuleQueue'[i][1] = e
                    \/ e \in DOMAIN granuleStatus' /\ granuleStatus'[e] = -2]_vars

\* C37 witness: a run without DB tracking has ended; it queued a granule
\* whose transfer failed, and the queues of pending transactions and the
\* pending-download record are on disk as they were.
C37_Witness ==
    /\ ~dbFlag /\ mpc = "end"
    /\ \E i \in DOMAIN granuleQueue : HasStatus(granuleQueue[i][1], -1)
    /\ ptxFile = ptxFile0 /\ ptxFile["C"].exists /\ ptxFile["G"].exists
    /\ pdlFile.exists /\ ParseOk(pdlFile) /\ logged = <<>>
    /\ inserts = <<>> /\ dbInserts = <<>>

\* A first invocation with DB tracking on, its request of one dataset loaded
\* and no queue of pending transactions, over a catalog of 1 MB granules, an empty
\* storage tree with room for every download and an empty store; up to
\* MaxRuns invocations follow one another.
RunsInit ==
    /\ UIdle /\ TIdle /\ SIdle /\ HIdle
    /\ ptxFile = [k \in Kinds |-> Absent]
    /\ ptxFile0 = ptxFile
    /\ process = [k \in Kinds |-> FALSE]
    /\ rpc = "main" /\ rkind = 1 /\ txs = <<>> /\ txi = 1
    /\ pendRoot = <<>> /\ inserts = <<>> /\ rewrite = "none"
    /\ dbFlag = TRUE
    /\ mpc = "query" /\ run = 1 /\ qi = 0
    /\ collContainer = <<>> /\ numCollections = 0
    /\ pdlFile = Absent /\ havePendDwnld = FALSE
    /\ pendColls = <<>> /\ lci = 1 /\ lgi = 1 /\ collIndex = 0
    /\ availDiskSpaceMB = BigDisk /\ dwnloadLimit = BigDisk
    /\ dirs = [p \in PathIds |-> "none"]
    /\ dirOps = <<>> /\ granuleQueue = <<>> /\ logged = <<>>
    /\ catalog = [g \in GranIds |-> [coll |-> CollOf(g), size |-> 1, ppts |-> <<>>,
                                    url |-> g]]
    /\ request = <<StaticDataset>>
    /\ dataSetQueries = <<ECHOdsQuery(StaticDataset)>>
    /\ maxDataFiles = MaxGran /\ hitsReceived = <<>>

\* __main__ with DB tracking on and granules without polygon points, one
\* invocation after another.
RunsNext ==
    \/ HavePending
    \/ OpenPendingOk
    \/ OpenPendingFail
    \/ SkipKind
    \/ ParseTx
    \/ InsertOk
    \/ InsertFail
    \/ BuildRaises
    \/ RemoveFileOk
    \/ RemoveFileFail
    \/ ReplayDone
    \/ DatasetQueryIgnored
    \/ DatasetQueryOne
    \/ DatasetQueryFatal
    \/ QueriesDone
    \/ LoadParse
    \/ MergeCollection
    \/ MergeGranuleStep
    \/ LoadDone
    \/ ZapPending
    \/ DownloaderInit
    \/ PlanDownload
    \/ LoopTest
    \/ Fill
    \/ Perform
    \/ InfoRead
    \/ Reconcile
    \/ Cleanup
    \/ SavePending
    \/ UpdateBegin
    \/ UpdateCollection
    \/ UpdateGranule
    \/ UpdateDone
    \/ SavePendTx
    \/ NextInvocation

SpecRuns == RunsInit /\ [][RunsNext]_vars

\* As RunsInit, over a store that holds some collections and no granule yet
\* and a catalog whose first granule has a polygon point.
IntegrityInit ==
    /\ UIdle /\ TIdle /\ SIdle
    /\ store = {} /\ fetched = {} /\ failed = {}
    /\ storeC \in SUBSET CollIds /\ storeP = {} /\ misread = FALSE
    /\ ptxFile = [k \in Kinds |-> Absent]
    /\ ptxFile0 = ptxFile
    /\ process = [k \in Kinds |-> FALSE]
    /\ rpc = "main" /\ rkind = 1 /\ txs = <<>> /\ txi = 1
    /\ pendRoot = <<>> /\ inserts = <<>> /\ rewrite = "none"
    /\ dbFlag = TRUE
    /\ mpc = "query" /\ run = 1 /\ qi = 0
    /\ collContainer = <<>> /\ numCollections = 0
    /\ pdlFile = Absent /\ havePendDwnld = FALSE
    /\ pendColls = <<>> /\ lci = 1 /\ lgi = 1 /\ collIndex = 0
    /\ availDiskSpaceMB = BigDisk /\ dwnloadLimit = BigDisk
    /\ dirs = [p \in PathIds |-> "none"]
    /\ dirOps = <<>> /\ granuleQueue = <<>> /\ logged = <<>>
    /\ catalog = [g \in GranIds |-> [coll |-> CollOf(g), size |-> 1,
                                    ppts |-> IF g = 1 THEN <<0>> ELSE <<>>,
                                    url |-> g]]
    /\ request = <<StaticDataset>>
    /\ dataSetQueries = <<ECHOdsQuery(StaticDataset)>>
    /\ maxDataFiles = MaxGran /\ hitsReceived = <<>>

\* __main__ with DB tracking on, one invocation after another.
INext ==
    \/ HavePending
    \/ OpenPendingOk
    \/ OpenPendingFail
    \/ SkipKind
    \/ ParseTx
    \/ InsertOk
    \/ InsertFail
    \/ BuildRaises
    \/ RemoveFileOk
    \/ RemoveFileFail
    \/ ReplayDone
    \/ DatasetQueryIgnored
    \/ DatasetQueryOne
    \/ DatasetQueryFatal
    \/ QueriesDone
    \/ LoadParse
    \/ MergeCollection
    \/ MergeGranuleStep
    \/ LoadDone
    \/ ZapPending
    \/ DownloaderInit
    \/ PlanDownload
    \/ LoopTest
    \/ Fill
    \/ Perform
    \/ InfoRead
    \/ Reconcile
    \/ Cleanup
    \/ SavePending
    \/ UpdateBegin
    \/ UpdateCollection
    \/ UpdateGranule
    \/ UpdatePolyPoint
    \/ UpdateDone
    \/ SavePendTx
    \/ NextInvocation

SpecIntegrity == IntegrityInit /\ [][INext]_vars

\* C32: as long as update's lookups of collections answer as the table
\* stands, every granule row in the store has the row of its collection
\* there and every polypoint row the row of its granule: no insert of
\* update or of the replay commits a row before the row it refers to.
C32_Integrity ==
    ~misread =>
        /\ \A g \in store : catalog[g].coll \in storeC
        /\ \A p \in storeP : GranuleOfPolyRow(p) \in store

\* C32 witness: in a later invocation, with no lookup answered wrongly, the
\* replay has committed a granule row and the store holds a polypoint row.
C32_Witness ==
    /\ ~misread /\ run > 1
    /\ \E i \in DOMAIN inserts : inserts[i].kind = "G" /\ inserts[i].ok
    /\ store # {} /\ storeP # {}

\* Work of the run proper: no catalog query was issued, no directory
\* provisioned, no transfer started and no fresh insert attempted.
NoRunWork ==
    /\ qi = 0 /\ collContainer = <<>>
    /\ dirOps = <<>> /\ started = <<>> /\ dbInserts = <<>>

\* Every queue present at the start was replayed to completion: each entry
\* inserted and the file removed.
ReplayComplete ==
    /\ rpc = "replayed"
    /\ \A k \in Kinds : ptxFile0[k].exists =>
          /\ ~ptxFile[k].exists
          /\ \A e \in Entries0(k) : InsertedBefore(k, e, Len(inserts) + 1)

\* C13: with DB tracking on and a pending-transaction queue present, the
\* first catalog query, directory provisioning, transfer or fresh insert
\* comes only after every present queue was replayed to completion, and
\* once the replay has aborted none of them ever happens.
C13_ReplayFirst ==
    [][(dbFlag /\ \E k \in Kinds : ptxFile0[k].exists) =>
          /\ (NoRunWork /\ ~NoRunWork') => ReplayComplete
          /\ rpc' = "exit" => NoRunWork']_vars

\* C13 witness: with DB tracking on and queues present, the replay has
\* completed and the run has queried, provisioned, transferred and inserted.
C13_Witness ==
    /\ dbFlag /\ \E k \in Kinds : ptxFile0[k].exists
    /\ ReplayComplete
    /\ qi > 0 /\ dirOps # <<>> /\ started # <<>> /\ dbInserts # <<>>

=============================================================================
